---------------------------- MODULE Spec2Model ----------------------------
(***************************************************************************)
(* machine-core: the agent execution engine (BaseAgent.run_query and       *)
(* BaseAgent.run_query_stream of core/agent_base.py), the conversation     *)
(* state it owns (AgentCore.__init__ of core/agent_core.py) and the image  *)
(* normalisation it calls (BaseAgent._process_image).                      *)
(*                                                                         *)
(* Strings the code tests with startswith/endswith are sequences of        *)
(* tokens: "http://host/cat.jpg" is <<"http://", "host/cat", ".jpg">>,     *)
(* the empty string is << >>.  Text accumulated with += is a sequence of   *)
(* chunks, += being \o.                                                    *)
(***************************************************************************)
EXTENDS Integers, Sequences, FiniteSets, TLC

\* ------------------------------------------------------------------ bounds
\* calls made on the one agent instance during a run
MaxCalls == 2
\* upstream events one stream delivers before it ends or throws
MaxEvents == 2
\* largest token count one exchange reports per counter
MaxTokens == 1
\* toolsets in one call of validate_and_fix_toolsets
MaxToolsets == 3
\* server entries in one configuration document
MaxServers == 2

\* ------------------------------------------------------- program constants
\* Config.Agent.MAX_ITERATIONS, the value run_query reads
MAX_ITERATIONS == 10
\* AgentConfig.max_iterations, the field's default
DefaultMaxIterations == 10

\* the callers (coroutines) that may hold a call on the agent instance
Procs == {1, 2}

VARIABLES
    agent_config,      \* self.agent_config: [max_iterations]
    message_history,   \* self.message_history: sequence of exchange ids
    usage,             \* self.usage: [input_tokens, output_tokens]
    call,              \* per caller: the frame of its run_query / run_query_stream
    ncalls,            \* calls started so far
    last_done,         \* ghost: entry point and message list of the latest completed exchange
    setup              \* the construction of the agent: loader, toolset factory, validation

vars == <<agent_config, message_history, usage, call, ncalls, last_done, setup>>

\* ------------------------------------------------------------------ strings
startswith(s, t) == Len(s) >= 1 /\ s[1] = t
endswith(s, t) == Len(s) >= 1 /\ s[Len(s)] = t

\* ------------------------------------------------------------------- usage
ZeroUsage == [input_tokens |-> 0, output_tokens |-> 0]
\* RequestUsage.total_tokens
total_tokens(u) == u.input_tokens + u.output_tokens
\* the usage one run of the model may report (result.usage())
RunUsages == [input_tokens : 0..MaxTokens, output_tokens : 0..MaxTokens]
UsagePlus(a, b) ==
    [input_tokens |-> a.input_tokens + b.input_tokens,
     output_tokens |-> a.output_tokens + b.output_tokens]

\* ---------------------------------------------------- the world of images
\* image references used as inputs
EmptyRef == << >>
InlineRef == <<"data:image/", "gif", ";base64,", "R0lG">>
PathOk == <<"/img/a", ".png">>
PathMissing == <<"/img/missing", ".png">>
UrlOk == <<"https://", "ok.example/cat", ".png">>
UrlDown == <<"http://", "down.example/x", ".jpg">>

\* hosts that answer every GET with one content-type ("" for no header)
ImageHosts ==
    {"png.example/i", "jpeg.example/i", "jpg.example/i", "gif.example/i",
     "webp.example/i", "bin.example/i", "bare.example/i"}
ServedType(host) ==
    CASE host = "png.example/i" -> "image/png"
      [] host = "jpeg.example/i" -> "image/jpeg"
      [] host = "jpg.example/i" -> "image/jpg"
      [] host = "gif.example/i" -> "image/gif"
      [] host = "webp.example/i" -> "image/webp"
      [] host = "bin.example/i" -> "application/octet-stream"
      [] OTHER -> ""

\* httpx GET + raise_for_status: the response of each host
HttpGet(url) ==
    IF url[2] = "ok.example/cat"
    THEN [ok |-> TRUE, content_type |-> "image/jpeg", content |-> "B1"]
    ELSE IF url[2] \in ImageHosts
    THEN [ok |-> TRUE, content_type |-> ServedType(url[2]), content |-> "B1"]
    ELSE [ok |-> FALSE, content_type |-> "", content |-> ""]

\* mutant of FileStat: every path is taken to exist
FileStatAlwaysThere(path) == [exists |-> TRUE, content |-> "B2"]

\* the local files: Path.exists and the bytes read
FileStat(path) ==
    IF path[1] = "/img/a"
    THEN [exists |-> TRUE, content |-> "B2"]
    ELSE [exists |-> FALSE, content |-> ""]

\* base64.b64encode(...).decode('utf-8')
b64encode(bytes) ==
    CASE bytes = "B1" -> "QjE="
      [] bytes = "B2" -> "QjI="
      [] OTHER -> ""

\* 'png' in content_type, for the content types of this world
InContentType(word, content_type) ==
    \/ word = "png" /\ content_type = "image/png"
    \/ word = "jpeg" /\ content_type = "image/jpeg"
    \/ word = "jpg" /\ content_type = "image/jpg"
    \/ word = "gif" /\ content_type = "image/gif"
    \/ word = "webp" /\ content_type = "image/webp"

\* the format chosen for a fetched image (agent_base.py 323-333)
UrlFormat(content_type, image_path) ==
    IF InContentType("png", content_type) \/ endswith(image_path, ".png") THEN "png"
    ELSE IF \/ InContentType("jpeg", content_type)
            \/ InContentType("jpg", content_type)
            \/ endswith(image_path, ".jpg") \/ endswith(image_path, ".jpeg") THEN "jpeg"
    ELSE IF InContentType("gif", content_type) \/ endswith(image_path, ".gif") THEN "gif"
    ELSE IF InContentType("webp", content_type) \/ endswith(image_path, ".webp") THEN "webp"
    ELSE "png"

\* image_path_obj.suffix[1:] or 'png'
PathFormat(image_path) ==
    LET ext == image_path[Len(image_path)]
    IN CASE ext = ".png" -> "png"
         [] ext = ".jpg" -> "jpg"
         [] ext = ".jpeg" -> "jpeg"
         [] ext = ".gif" -> "gif"
         [] ext = ".webp" -> "webp"
         [] ext = ".bmp" -> "bmp"
         [] OTHER -> "png"

DataUrl(img_format, encoded_image) ==
    <<"data:image/", img_format, ";base64,", encoded_image>>

\* mutant of _process_image: an inline reference is encoded once more as png
_process_image_retagging(image_path) ==
    IF image_path = << >>
    THEN [status |-> "none", value |-> << >>, fetch |-> 0, read |-> 0, err |-> ""]
    ELSE IF startswith(image_path, "data:image/")
    THEN [status |-> "value", value |-> DataUrl("png", b64encode("B1")),
          fetch |-> 0, read |-> 0, err |-> ""]
    ELSE [status |-> "raise", value |-> << >>, fetch |-> 0, read |-> 0,
          err |-> "Image file not found"]

\* BaseAgent._process_image: status "value" (a data URL), "none" (returns None)
\* or "raise"; fetch/read say whether an HTTP GET was issued / a file was read
_process_image(image_path) ==
    IF image_path = << >>
    THEN [status |-> "none", value |-> << >>, fetch |-> 0, read |-> 0, err |-> ""]
    ELSE IF startswith(image_path, "data:image/")
    THEN [status |-> "value", value |-> image_path, fetch |-> 0, read |-> 0, err |-> ""]
    ELSE IF startswith(image_path, "http://") \/ startswith(image_path, "https://")
    THEN LET response == HttpGet(image_path)
         IN IF response.ok
            THEN [status |-> "value",
                  value |-> DataUrl(UrlFormat(response.content_type, image_path),
                                    b64encode(response.content)),
                  fetch |-> 1, read |-> 0, err |-> ""]
            ELSE [status |-> "raise", value |-> << >>, fetch |-> 1, read |-> 0,
                  err |-> "HTTPError"]
    ELSE LET file == FileStat(image_path)
         IN IF ~file.exists
            THEN [status |-> "raise", value |-> << >>, fetch |-> 0, read |-> 0,
                  err |-> "Image file not found"]
            ELSE [status |-> "value",
                  value |-> DataUrl(PathFormat(image_path), b64encode(file.content)),
                  fetch |-> 0, read |-> 1, err |-> ""]

\* ------------------------------------------------------- inputs of a call
Queries == {"", "q"}
\* image_paths: None, one reference, or a list of references
NoImages == [tag |-> "none", refs |-> << >>]
OneImage(ref) == [tag |-> "one", refs |-> <<ref>>]
ImageList(refs) == [tag |-> "list", refs |-> refs]
ImageInputs ==
    {NoImages, OneImage(PathOk), OneImage(PathMissing),
     ImageList(<<PathOk, UrlDown, PathMissing>>),
     ImageList(<<EmptyRef, InlineRef, UrlOk>>)}

\* `if image_paths:` followed by the wrapping of a single reference in a list
Truthy(image_paths) ==
    \/ image_paths.tag = "one" /\ image_paths.refs[1] # << >>
    \/ image_paths.tag = "list" /\ Len(image_paths.refs) > 0
NormalizedPaths(image_paths) ==
    IF Truthy(image_paths) THEN image_paths.refs ELSE << >>

\* ---------------------------------------------------------------- results
NoResult ==
    [kind |-> "none", output |-> "", ref |-> << >>, cause |-> "",
     usage |-> ZeroUsage, messages |-> << >>]
\* {"output": text}: the error dictionaries run_query returns
ErrorDict(text, ref, cause) ==
    [kind |-> "dict", output |-> text, ref |-> ref, cause |-> cause,
     usage |-> ZeroUsage, messages |-> << >>]
NoQueryText == "Error: No query provided."
ImageErrorText == "Error: Failed to process image"
MaxRetriesText == "Error: Maximum retries reached. Some tools failed to respond properly."
\* the AgentRunResult of a successful run: usage() and all_messages()
RunResult(u, msgs) ==
    [kind |-> "run_result", output |-> "", ref |-> << >>, cause |-> "",
     usage |-> u, messages |-> msgs]
\* result.all_messages(): the history the run was given, then the new exchange
all_messages(history, id) == Append(history, id)

\* ------------------------------------------------------------- the frames
\* no result of _process_image yet
NotNormalized ==
    [status |-> "unset", value |-> << >>, fetch |-> 0, read |-> 0, err |-> ""]
IdleCall ==
    [pc |-> "idle", entry |-> "none", id |-> 0, query |-> "",
     queue |-> << >>, processed_images |-> << >>, img_calls |-> << >>,
     fetches |-> 0, reads |-> 0,
     retry_count |-> 0, attempts |-> 0, delays |-> 0,
     message_content |-> << >>, hist_given |-> << >>,
     hist0 |-> << >>, usage0 |-> ZeroUsage, commits |-> 0,
     result |-> NoResult,
     events |-> << >>, full_text |-> << >>, full_thinking |-> << >>,
     consumed |-> 0, upstream |-> "none",
     given |-> NoImages, outcome |-> "none", yielded |-> NoResult,
     image |-> NotNormalized, again |-> NotNormalized,
     raised |-> "", seen |-> << >>]

\* ------------------------------------------------------------ construction
\* the frame of AgentCore.__init__ / validate_and_fix_toolsets, before any call
IdleSetup ==
    [pc |-> "idle", loop |-> "none", doc_class |-> "none", tools_urls |-> << >>,
     factory |-> << >>, toolsets |-> << >>, validation_warnings |-> << >>,
     given |-> << >>, cursor |-> 0, kept |-> << >>, all_warnings |-> << >>,
     enumerated |-> << >>, raised |-> "", by |-> "none",
     entries |-> << >>, answers |-> << >>,
     model |-> "unset", embedding |-> "unset", embedding_model_name |-> "unset",
     agent |-> "unset"]

\* the max_iterations an agent instance may be constructed with
ConfiguredIterations == {3, DefaultMaxIterations}

Init ==
    /\ agent_config \in [max_iterations : ConfiguredIterations]
    /\ message_history = << >>
    /\ usage = ZeroUsage
    /\ call = [p \in Procs |-> IdleCall]
    /\ ncalls = 0
    /\ last_done = [entry |-> "none", messages |-> << >>]
    /\ setup = IdleSetup

\* ------------------------------------------------------ outward StreamEvents
NoThinking == [none |-> TRUE, text |-> << >>]
OutEvent(type, content) ==
    [type |-> type, content |-> content, tool_name |-> "", tool_args |-> "",
     thinking |-> NoThinking, usage |-> ZeroUsage, ref |-> << >>]
\* {"type": "error", "content": ...}; ref is the reference the text names
ErrorEvent(text, ref, cause) ==
    [OutEvent("error", <<text, cause>>) EXCEPT !.ref = ref]

\* -------------------------------------------------- run_query, first part
\* max_retries = agent_config.MAX_ITERATIONS with agent_config = Config.Agent()
max_retries == MAX_ITERATIONS

\* mutant of LoopCheck: the loop bound taken inclusively
LoopCheckInclusive(c) ==
    IF c.retry_count <= max_retries
    THEN [c EXCEPT !.pc = "attempt"]
    ELSE [c EXCEPT !.pc = "done", !.result = ErrorDict(MaxRetriesText, << >>, "")]

\* `while retry_count < max_retries`, and the return that follows the loop
LoopCheck(c) ==
    IF c.retry_count < max_retries
    THEN [c EXCEPT !.pc = "attempt"]
    ELSE [c EXCEPT !.pc = "done", !.result = ErrorDict(MaxRetriesText, << >>, "")]

\* the frame once the images are processed: the retry loop, or the stream
AfterImages(c) ==
    IF c.entry = "run_query" THEN LoopCheck(c) ELSE [c EXCEPT !.pc = "open"]

\* how either entry point reports an error met before the model is invoked
FailEarly(c, text, ref, cause) ==
    IF c.entry = "run_query"
    THEN [c EXCEPT !.pc = "done", !.result = ErrorDict(text, ref, cause)]
    ELSE [c EXCEPT !.pc = "done",
                   !.events = Append(c.events, ErrorEvent(text, ref, cause))]

\* mutant of Enter: the images are normalised before the query is looked at
EnterImagesFirst(c, image_paths) ==
    LET paths == NormalizedPaths(image_paths)
    IN IF paths = << >>
       THEN IF c.query = "" THEN FailEarly(c, NoQueryText, << >>, "") ELSE AfterImages(c)
       ELSE [c EXCEPT !.pc = "images", !.queue = paths]

\* the query check and the normalisation of image_paths
Enter(c, image_paths) ==
    IF c.query = ""
    THEN FailEarly(c, NoQueryText, << >>, "")
    ELSE LET paths == NormalizedPaths(image_paths)
         IN IF paths = << >>
            THEN AfterImages(c)
            ELSE [c EXCEPT !.pc = "images", !.queue = paths]

\* a caller enters run_query or run_query_stream
Start(p, entry, query, image_paths) ==
    /\ call[p].pc = "idle"
    /\ ncalls < MaxCalls
    /\ ncalls' = ncalls + 1
    /\ call' = [call EXCEPT ![p] =
                   Enter([IdleCall EXCEPT !.entry = entry, !.id = ncalls + 1,
                                          !.query = query, !.given = image_paths,
                                          !.hist0 = message_history,
                                          !.usage0 = usage],
                         image_paths)]
    /\ UNCHANGED <<agent_config, message_history, usage, last_done, setup>>

\* mutant of ImageStep: a reference that fails is logged and skipped
ImageStepSkipFailed(c) ==
    LET img_path == Head(c.queue)
        r == _process_image(img_path)
        seen == [c EXCEPT !.img_calls = Append(c.img_calls, img_path),
                          !.fetches = c.fetches + r.fetch,
                          !.reads = c.reads + r.read,
                          !.queue = Tail(c.queue)]
        kept == IF r.status = "value"
                THEN [seen EXCEPT !.processed_images = Append(c.processed_images, r.value)]
                ELSE seen
    IN IF kept.queue = << >> THEN AfterImages(kept) ELSE kept

\* one turn of `for img_path in image_paths`
ImageStep(c) ==
    LET img_path == Head(c.queue)
        r == _process_image(img_path)
        seen == [c EXCEPT !.img_calls = Append(c.img_calls, img_path),
                          !.fetches = c.fetches + r.fetch,
                          !.reads = c.reads + r.read,
                          !.queue = Tail(c.queue)]
        kept == IF r.status = "value"
                THEN [seen EXCEPT !.processed_images = Append(c.processed_images, r.value)]
                ELSE seen
    IN IF r.status = "raise"
       THEN FailEarly(seen, ImageErrorText, img_path, r.err)
       ELSE IF kept.queue = << >> THEN AfterImages(kept) ELSE kept

ProcessImage(p) ==
    /\ call[p].pc = "images"
    /\ call' = [call EXCEPT ![p] = ImageStep(call[p])]
    /\ UNCHANGED <<agent_config, message_history, usage, ncalls, last_done, setup>>

\* [query] + [ImageUrl(url=img) ...], or the bare query
MessageContent(c) == [text |-> c.query, images |-> c.processed_images]

\* mutant of InvokeModel: the run is started without the conversation history
InvokeModelNoHistory(p) ==
    /\ call[p].pc = "attempt"
    /\ call' = [call EXCEPT ![p] =
                   [call[p] EXCEPT !.pc = "await",
                                   !.attempts = call[p].attempts + 1,
                                   !.message_content = MessageContent(call[p]),
                                   !.hist_given = << >>]]
    /\ UNCHANGED <<agent_config, message_history, usage, ncalls, last_done, setup>>

\* self.agent.run(message_content, message_history=self.message_history) is called
InvokeModel(p) ==
    /\ call[p].pc = "attempt"
    /\ call' = [call EXCEPT ![p] =
                   [call[p] EXCEPT !.pc = "await",
                                   !.attempts = call[p].attempts + 1,
                                   !.message_content = MessageContent(call[p]),
                                   !.hist_given = message_history]]
    /\ UNCHANGED <<agent_config, message_history, usage, ncalls, last_done, setup>>

\* mutant of Accept: the result is stored but the loop is not left
AcceptAndRetry(c, result) ==
    [c EXCEPT !.pc = "attempt", !.commits = c.commits + 1, !.result = result]

\* the frame after a non-empty result (lines 110-113): `return result`
Accept(c, result) ==
    [c EXCEPT !.pc = "done", !.commits = c.commits + 1, !.result = result]

\* self.usage = result.usage()
UsageFromRun(result) == result.usage
\* mutant of HistoryFromRun: the new exchange is added to whatever is stored now
HistoryFromRunMerging(result) == Append(message_history, result.messages[Len(result.messages)])
\* mutant of HistoryFromRun: only the messages of this run (new_messages) are kept
HistoryFromRunNewOnly(result) == <<result.messages[Len(result.messages)]>>
\* self.message_history = result.all_messages()
HistoryFromRun(result) == result.messages

\* the frame after an empty result (lines 114-116): no delay
AfterEmpty(c) == LoopCheck([c EXCEPT !.retry_count = c.retry_count + 1])

\* the frame after a thrown error (lines 117-122)
AfterError(c) ==
    LET n == c.retry_count + 1
    IN IF n < max_retries
       THEN [c EXCEPT !.retry_count = n, !.pc = "sleep", !.delays = c.delays + 1]
       ELSE LoopCheck([c EXCEPT !.retry_count = n])

\* the run returns a non-empty result: usage and history are stored
ModelReturnsResult(p, u) ==
    LET result == RunResult(u, all_messages(call[p].hist_given, call[p].id))
    IN /\ call[p].pc = "await"
       /\ usage' = UsageFromRun(result)
       /\ message_history' = HistoryFromRun(result)
       /\ call' = [call EXCEPT ![p] =
                      [Accept(call[p], result) EXCEPT !.outcome = "result",
                                                      !.yielded = result]]
       /\ last_done' = [entry |-> "run_query", messages |-> result.messages]
       /\ UNCHANGED <<agent_config, ncalls, setup>>

\* the run returns an empty (falsy) result
ModelReturnsEmpty(p) ==
    /\ call[p].pc = "await"
    /\ call' = [call EXCEPT ![p] = [AfterEmpty(call[p]) EXCEPT !.outcome = "empty"]]
    /\ UNCHANGED <<agent_config, message_history, usage, ncalls, last_done, setup>>

\* the run raises
ModelRaises(p) ==
    /\ call[p].pc = "await"
    /\ call' = [call EXCEPT ![p] = [AfterError(call[p]) EXCEPT !.outcome = "raise"]]
    /\ UNCHANGED <<agent_config, message_history, usage, ncalls, last_done, setup>>

\* asyncio.sleep(1) is over
Wake(p) ==
    /\ call[p].pc = "sleep"
    /\ call' = [call EXCEPT ![p] = LoopCheck(call[p])]
    /\ UNCHANGED <<agent_config, message_history, usage, ncalls, last_done, setup>>

\* the caller has the result (or the whole event sequence); its frame is gone
Return(p) ==
    /\ call[p].pc = "done"
    /\ call' = [call EXCEPT ![p] = IdleCall]
    /\ UNCHANGED <<agent_config, message_history, usage, ncalls, last_done, setup>>

\* ------------------------------------------------------- run_query_stream
\* the events self.agent.run_stream_events may deliver before the run completes
UpEvent(kind, delta, chunk) ==
    [kind |-> kind, delta |-> delta, chunk |-> chunk,
     tool_name |-> "", args |-> "", content |-> "", readable |-> TRUE]
TextChunks == {<< >>, <<"a">>, <<"b">>}
ThinkingChunks == {<< >>, <<"t">>}
UpstreamEvents ==
    {UpEvent("PartDeltaEvent", "TextPartDelta", c) : c \in TextChunks}
    \cup {UpEvent("PartDeltaEvent", "ThinkingPartDelta", c) : c \in ThinkingChunks}
    \cup {UpEvent("PartDeltaEvent", "ToolCallPartDelta", << >>)}
    \cup {[UpEvent("FunctionToolCallEvent", "", << >>)
              EXCEPT !.tool_name = "search", !.args = "{}"]}
    \cup {[UpEvent("FunctionToolResultEvent", "", << >>)
              EXCEPT !.tool_name = "search", !.content = "found", !.readable = r] :
          r \in BOOLEAN}
    \cup {UpEvent(k, "", << >>) :
          k \in {"FinalResultEvent", "PartStartEvent", "PartEndEvent", "Other"}}
\* what the stream may raise
StreamErrors == {"KeyError", "RuntimeError"}

\* mutant of Translate: an empty text increment is forwarded too
TranslateEmptyText(event) ==
    IF event.kind = "PartDeltaEvent"
    THEN IF event.delta = "TextPartDelta"
         THEN <<OutEvent("text_delta", event.chunk)>>
         ELSE IF event.delta = "ThinkingPartDelta"
         THEN IF event.chunk # << >>
              THEN <<OutEvent("thinking_delta", event.chunk)>> ELSE << >>
         ELSE << >>
    ELSE IF event.kind = "FunctionToolCallEvent"
    THEN <<[OutEvent("tool_call", << >>)
               EXCEPT !.tool_name = event.tool_name, !.tool_args = event.args]>>
    ELSE IF event.kind = "FunctionToolResultEvent"
    THEN IF event.readable
         THEN <<[OutEvent("tool_result", <<event.content>>)
                    EXCEPT !.tool_name = "unknown"]>>
         ELSE << >>
    ELSE << >>

\* mutant of Translate: a tool result that cannot be read surfaces as an error
TranslateSurfacing(event) ==
    IF event.kind = "PartDeltaEvent"
    THEN IF event.delta = "TextPartDelta"
         THEN IF event.chunk # << >> THEN <<OutEvent("text_delta", event.chunk)>> ELSE << >>
         ELSE IF event.delta = "ThinkingPartDelta"
         THEN IF event.chunk # << >>
              THEN <<OutEvent("thinking_delta", event.chunk)>> ELSE << >>
         ELSE << >>
    ELSE IF event.kind = "FunctionToolCallEvent"
    THEN <<[OutEvent("tool_call", << >>)
               EXCEPT !.tool_name = event.tool_name, !.tool_args = event.args]>>
    ELSE IF event.kind = "FunctionToolResultEvent"
    THEN IF event.readable
         THEN <<[OutEvent("tool_result", <<event.content>>)
                    EXCEPT !.tool_name = "unknown"]>>
         ELSE <<OutEvent("error", <<"tool result">>)>>
    ELSE << >>

\* the outward events one upstream event is translated to (lines 212-256)
Translate(event) ==
    IF event.kind = "PartDeltaEvent"
    THEN IF event.delta = "TextPartDelta"
         THEN IF event.chunk # << >> THEN <<OutEvent("text_delta", event.chunk)>> ELSE << >>
         ELSE IF event.delta = "ThinkingPartDelta"
         THEN IF event.chunk # << >>
              THEN <<OutEvent("thinking_delta", event.chunk)>> ELSE << >>
         ELSE << >>
    ELSE IF event.kind = "FunctionToolCallEvent"
    THEN <<[OutEvent("tool_call", << >>)
               EXCEPT !.tool_name = event.tool_name, !.tool_args = event.args]>>
    ELSE IF event.kind = "FunctionToolResultEvent"
    THEN IF event.readable
         THEN <<[OutEvent("tool_result", <<event.content>>)
                    EXCEPT !.tool_name = "unknown"]>>
         ELSE << >>
    ELSE << >>

\* full_text += text_chunk / full_thinking += thinking_chunk
TextOf(event) ==
    IF event.kind = "PartDeltaEvent" /\ event.delta = "TextPartDelta"
    THEN event.chunk ELSE << >>
ThinkingOf(event) ==
    IF event.kind = "PartDeltaEvent" /\ event.delta = "ThinkingPartDelta"
    THEN event.chunk ELSE << >>

\* mutant of StreamStep: a chunk is put in front of the text accumulated so far
StreamStepPrepend(c, event) ==
    [c EXCEPT !.events = c.events \o Translate(event),
              !.full_text = TextOf(event) \o c.full_text,
              !.full_thinking = ThinkingOf(event) \o c.full_thinking,
              !.consumed = c.consumed + 1]

\* mutant of StreamStep: a tool result that cannot be read ends the stream
StreamStepStopOnUnreadable(c, event) ==
    IF event.kind = "FunctionToolResultEvent" /\ ~event.readable
    THEN [c EXCEPT !.pc = "done", !.consumed = c.consumed + 1]
    ELSE [c EXCEPT !.events = c.events \o Translate(event),
                   !.full_text = c.full_text \o TextOf(event),
                   !.full_thinking = c.full_thinking \o ThinkingOf(event),
                   !.consumed = c.consumed + 1]

\* one turn of `async for event in ...` for an event that is not the run's result
StreamStep(c, event) ==
    [c EXCEPT !.events = c.events \o Translate(event),
              !.full_text = c.full_text \o TextOf(event),
              !.full_thinking = c.full_thinking \o ThinkingOf(event),
              !.consumed = c.consumed + 1]

\* the final message (lines 263-271), from the agent's usage u
FinalEvent(c, u) ==
    [OutEvent("final", c.full_text)
        EXCEPT !.thinking = IF c.full_thinking # << >>
                            THEN [none |-> FALSE, text |-> c.full_thinking]
                            ELSE NoThinking,
               !.usage = [input_tokens |-> total_tokens(u),
                          output_tokens |-> total_tokens(u)]]

\* self.agent.run_stream_events(message_content, message_history=self.message_history)
OpenStream(p) ==
    /\ call[p].pc = "open"
    /\ call' = [call EXCEPT ![p] =
                   [call[p] EXCEPT !.pc = "stream", !.upstream = "open",
                                   !.attempts = call[p].attempts + 1,
                                   !.message_content = MessageContent(call[p]),
                                   !.hist_given = message_history]]
    /\ UNCHANGED <<agent_config, message_history, usage, ncalls, last_done, setup>>

StreamEvent(p, event) ==
    /\ call[p].pc = "stream"
    /\ call[p].upstream = "open"
    /\ call[p].consumed < MaxEvents
    /\ call' = [call EXCEPT ![p] = StreamStep(call[p], event)]
    /\ UNCHANGED <<agent_config, message_history, usage, ncalls, last_done, setup>>

\* the frame after the AgentRunResultEvent (lines 207-210)
Snapshot(c) ==
    [c EXCEPT !.commits = c.commits + 1, !.upstream = "completed",
              !.consumed = c.consumed + 1]

\* self.usage = event.result.usage()
UsageFromStream(result) == result.usage
\* mutant of HistoryFromStream: the stream leaves the stored history alone
HistoryFromStreamKept(result) == message_history
\* self.message_history = event.result.all_messages()
HistoryFromStream(result) == result.messages

\* the AgentRunResultEvent, the last event of a run: usage and history are stored
StreamCompletes(p, u) ==
    LET result == RunResult(u, all_messages(call[p].hist_given, call[p].id))
    IN /\ call[p].pc = "stream"
       /\ call[p].upstream = "open"
       /\ usage' = UsageFromStream(result)
       /\ message_history' = HistoryFromStream(result)
       /\ call' = [call EXCEPT ![p] =
                      [Snapshot(call[p]) EXCEPT !.outcome = "result",
                                                !.yielded = result]]
       /\ last_done' = [entry |-> "run_query_stream", messages |-> result.messages]
       /\ UNCHANGED <<agent_config, ncalls, setup>>

\* the upstream stream ends normally
StreamEnds(p) ==
    /\ call[p].pc = "stream"
    /\ call' = [call EXCEPT ![p] =
                   [call[p] EXCEPT !.pc = "done", !.upstream = "ended",
                                   !.events = Append(call[p].events,
                                                     FinalEvent(call[p], usage))]]
    /\ UNCHANGED <<agent_config, message_history, usage, ncalls, last_done, setup>>

\* mutant of AfterStreamError: the error is reported and the final message still sent
AfterStreamErrorThenFinal(c, exc) ==
    [c EXCEPT !.pc = "done", !.upstream = "raised",
              !.events = c.events \o <<OutEvent("error", <<exc>>),
                                       OutEvent("final", c.full_text)>>]

\* the frame after the stream raised: `except Exception as stream_error` (273-275)
AfterStreamError(c, exc) ==
    [c EXCEPT !.pc = "done", !.upstream = "raised",
              !.events = Append(c.events, [OutEvent("error", <<exc>>) EXCEPT !.ref = << >>])]

\* the upstream stream raises
StreamThrows(p, exc) ==
    /\ call[p].pc = "stream"
    /\ call' = [call EXCEPT ![p] = [AfterStreamError(call[p], exc) EXCEPT !.raised = exc]]
    /\ UNCHANGED <<agent_config, message_history, usage, ncalls, last_done, setup>>

\* ------------------------------------------------------ the specification
EntryPoints == {"run_query", "run_query_stream"}
\* one caller at a time: the calls on the instance are serialized
SerialCallers == {1}

Step(p) ==
    \/ \E entry \in EntryPoints, query \in Queries, image_paths \in ImageInputs :
          Start(p, entry, query, image_paths)
    \/ ProcessImage(p)
    \/ InvokeModel(p)
    \/ \E u \in RunUsages : ModelReturnsResult(p, u)
    \/ ModelReturnsEmpty(p)
    \/ ModelRaises(p)
    \/ Wake(p)
    \/ OpenStream(p)
    \/ \E event \in UpstreamEvents : StreamEvent(p, event)
    \/ \E u \in RunUsages : StreamCompletes(p, u)
    \/ StreamEnds(p)
    \/ \E exc \in StreamErrors : StreamThrows(p, exc)
    \/ Return(p)

Next == \E p \in SerialCallers : Step(p)

Spec == Init /\ [][Next]_vars

\* ------------------------------------- one stream, its upstream events recorded
\* (seen is a ghost: the upstream events the call has consumed, in order)
StartStream(p) ==
    /\ ncalls = 0
    /\ Start(p, "run_query_stream", "q", NoImages)

StreamEventSeen(p, event) ==
    /\ call[p].pc = "stream"
    /\ call[p].upstream = "open"
    /\ call[p].consumed < MaxEvents
    /\ call' = [call EXCEPT ![p] =
                   [StreamStep(call[p], event)
                       EXCEPT !.seen = Append(call[p].seen, event)]]
    /\ UNCHANGED <<agent_config, message_history, usage, ncalls, last_done, setup>>

StreamCompletesSeen(p, u) ==
    LET result == RunResult(u, all_messages(call[p].hist_given, call[p].id))
    IN /\ call[p].pc = "stream"
       /\ call[p].upstream = "open"
       /\ usage' = UsageFromStream(result)
       /\ message_history' = HistoryFromStream(result)
       /\ call' = [call EXCEPT ![p] =
                      [Snapshot(call[p])
                          EXCEPT !.outcome = "result", !.yielded = result,
                                 !.seen = Append(call[p].seen,
                                                 UpEvent("AgentRunResultEvent", "", << >>))]]
       /\ last_done' = [entry |-> "run_query_stream", messages |-> result.messages]
       /\ UNCHANGED <<agent_config, ncalls, setup>>

StreamCall(p) ==
    \/ StartStream(p)
    \/ OpenStream(p)
    \/ \E event \in UpstreamEvents : StreamEventSeen(p, event)
    \/ \E u \in RunUsages : StreamCompletesSeen(p, u)
    \/ StreamEnds(p)
    \/ \E exc \in StreamErrors : StreamThrows(p, exc)
    \/ Return(p)

NextStream == \E p \in SerialCallers : StreamCall(p)

SpecStream == Init /\ [][NextStream]_vars

\* ------------------------------------ a stream the caller stops consuming
\* the generator is suspended at a `yield`: the last upstream event it took was
\* translated to an outward event, and the run's result has not arrived
AtYield(c) ==
    /\ c.entry = "run_query_stream"
    /\ c.pc = "stream"
    /\ c.upstream = "open"
    /\ c.seen # << >>
    /\ Translate(c.seen[Len(c.seen)]) # << >>

\* mutant of StopConsuming: closing the generator stores the exchange so far
StopConsumingStoring(p) ==
    /\ AtYield(call[p])
    /\ message_history' = all_messages(call[p].hist_given, call[p].id)
    /\ call' = [call EXCEPT ![p] =
                   [call[p] EXCEPT !.pc = "done", !.upstream = "abandoned",
                                   !.outcome = "abandoned"]]
    /\ UNCHANGED <<agent_config, usage, ncalls, last_done, setup>>

\* the caller stops consuming: the generator is closed (or never resumed) at the
\* `yield` it is suspended at; GeneratorExit is not an Exception, no handler runs
StopConsuming(p) ==
    /\ AtYield(call[p])
    /\ call' = [call EXCEPT ![p] =
                   [call[p] EXCEPT !.pc = "done", !.upstream = "abandoned",
                                   !.outcome = "abandoned"]]
    /\ UNCHANGED <<agent_config, message_history, usage, ncalls, last_done, setup>>

\* the call that follows a stream the caller gave up
StartAfter(p, entry) ==
    /\ p = 2
    /\ call[1].outcome = "abandoned"
    /\ Start(p, entry, "q", NoImages)

CancelStep(p) ==
    \/ p = 1 /\ StartStream(p)
    \/ \E entry \in EntryPoints : StartAfter(p, entry)
    \/ OpenStream(p)
    \/ p = 1 /\ \E event \in UpstreamEvents : StreamEventSeen(p, event)
    \/ \E u \in RunUsages : StreamCompletesSeen(p, u)
    \/ StreamEnds(p)
    \/ \E exc \in StreamErrors : StreamThrows(p, exc)
    \/ StopConsuming(p)
    \/ InvokeModel(p)
    \/ \E u \in RunUsages : ModelReturnsResult(p, u)

NextCancel == \E p \in Procs : CancelStep(p)

SpecCancel == Init /\ [][NextCancel]_vars

\* ------------------------------------- two callers on one agent instance
\* (no lock in either entry point: a second task may enter while the first is
\* suspended in `await self.agent.run(...)` or in the `async for`)
StartOverlapping(p, entry) == Start(p, entry, "q", NoImages)

OverlapStep(p) ==
    \/ \E entry \in EntryPoints : StartOverlapping(p, entry)
    \/ InvokeModel(p)
    \/ \E u \in RunUsages : ModelReturnsResult(p, u)
    \/ OpenStream(p)
    \/ \E u \in RunUsages : StreamCompletes(p, u)
    \/ StreamEnds(p)

NextOverlap == \E p \in Procs : OverlapStep(p)

SpecOverlap == Init /\ [][NextOverlap]_vars

\* ------------------------------------------------------------- properties
IsPrefix(s, t) == Len(s) <= Len(t) /\ SubSeq(t, 1, Len(s)) = s
Count(events, type) == Cardinality({i \in 1..Len(events) : events[i].type = type})
\* the index of the first reference of paths that _process_image fails on, or 0
FirstFailing(paths) ==
    LET bad == {i \in 1..Len(paths) : _process_image(paths[i]).status = "raise"}
    IN IF bad = {} THEN 0 ELSE CHOOSE i \in bad : \A j \in bad : i <= j

\* C1: a run_query whose attempts all failed (empty result or raise) has invoked
\* the model exactly MAX_ITERATIONS times, neither fewer nor more, and has
\* returned the 'Maximum retries reached' dictionary as its result.
C1_ExhaustionAfterExactlyN ==
    \A p \in Procs :
        LET c == call[p]
        IN c.entry = "run_query" =>
              /\ c.attempts <= MAX_ITERATIONS
              /\ (c.pc = "done" /\ c.attempts > 0 /\ c.outcome # "result") =>
                    /\ c.attempts = MAX_ITERATIONS
                    /\ c.result = ErrorDict(MaxRetriesText, << >>, "")
              /\ c.result.output = MaxRetriesText =>
                    c.pc = "done" /\ c.attempts = MAX_ITERATIONS
C1_Witness ==
    \E p \in Procs :
        /\ call[p].entry = "run_query" /\ call[p].pc = "done"
        /\ call[p].result.output = MaxRetriesText
        /\ call[p].attempts = MAX_ITERATIONS
        /\ call[p].delays > 0 /\ call[p].delays < MAX_ITERATIONS - 1

\* C2: one run_query call never invokes the model more often than the
\* max_iterations of the AgentConfig the agent instance was constructed with.
C2_AttemptsWithinConfigured ==
    \A p \in Procs :
        call[p].entry = "run_query" => call[p].attempts <= agent_config.max_iterations

\* C3: in run_query the first attempt that yields a non-empty result ends the
\* call: that result is what is returned, every earlier attempt failed and no
\* attempt or delay follows, and usage and message_history were written once,
\* from that result.
C3_FirstResultAccepted ==
    \A p \in Procs :
        LET c == call[p]
        IN (c.entry = "run_query" /\ c.outcome = "result") =>
              /\ c.pc = "done"
              /\ c.result = c.yielded
              /\ c.attempts = c.retry_count + 1
              /\ c.delays <= c.retry_count
              /\ c.commits = 1
              /\ usage = c.yielded.usage
              /\ message_history = c.yielded.messages
C3_Witness ==
    \E p \in Procs :
        /\ call[p].entry = "run_query" /\ call[p].outcome = "result"
        /\ call[p].retry_count >= 2 /\ call[p].delays >= 1
        /\ call[p].result.kind = "run_result"
        /\ call[p].hist0 # << >>

\* C4: the usage counters accumulate: each completed exchange adds its own
\* usage to the agent's counters (so two exchanges leave their sum, and the
\* counters never decrease).
C4_UsageAccumulates ==
    [][\A p \in Procs :
          call'[p].commits = call[p].commits + 1 =>
              usage' = UsagePlus(usage, call'[p].yielded.usage)]_vars

\* C5: message_history and usage are written only when an exchange completes,
\* at most once per call; a call that ends with the empty-query error, an image
\* error, retry exhaustion or a stream error before the run's completion leaves
\* both as they were when the call began, and every attempt of the call is
\* given that same history.
C5_StateOnlyOnCompletion ==
    \A p \in Procs :
        LET c == call[p]
            failed == \/ c.entry = "run_query" /\ c.result.kind = "dict"
                      \/ /\ c.entry = "run_query_stream"
                         /\ c.events # << >>
                         /\ c.events[Len(c.events)].type = "error"
                         /\ c.outcome # "result"
        IN c.pc # "idle" =>
              /\ c.commits <= 1
              /\ c.outcome # "result" =>
                    c.commits = 0 /\ message_history = c.hist0 /\ usage = c.usage0
              /\ (c.pc = "done" /\ failed) =>
                    message_history = c.hist0 /\ usage = c.usage0
              /\ c.attempts > 0 => c.hist_given = c.hist0
C5_Witness ==
    \E p \in Procs :
        /\ call[p].pc = "done" /\ call[p].entry = "run_query"
        /\ call[p].result.output = MaxRetriesText
        /\ call[p].hist0 # << >> /\ call[p].usage0 # ZeroUsage
        /\ message_history = call[p].hist0 /\ usage = call[p].usage0

\* C6: with serialized calls and a model whose message list extends the
\* history it was given, the conversation history is append-only: every step
\* leaves a history that extends the history before it.
C6_HistoryAppendOnly == [][IsPrefix(message_history, message_history')]_vars
C6_Witness ==
    /\ Len(message_history) >= 2
    /\ \E p \in Procs : call[p].pc = "done"

\* C7: the two entry points share one conversation state: while a call's run
\* of the model is in progress, the history it was given is the message list
\* left by the latest completed exchange, whichever entry point completed it.
C7_SharedHistory ==
    \A p \in Procs :
        LET c == call[p]
        IN (c.pc = "await" \/ (c.pc = "stream" /\ c.upstream = "open")) =>
              c.hist_given = last_done.messages
C7_Witness ==
    \E p \in Procs :
        /\ call[p].pc = "await"
        /\ last_done.entry = "run_query_stream"
        /\ call[p].hist_given # << >>
        /\ call[p].hist_given = last_done.messages

\* C8: an empty query reaches neither the model nor the image pipeline:
\* run_query returns the 'No query provided' dictionary, run_query_stream
\* yields exactly one error event and ends, with no model invocation and no
\* image fetched or read.
C8_EmptyQueryStopsAtOnce ==
    \A p \in Procs :
        LET c == call[p]
        IN (c.pc # "idle" /\ c.query = "") =>
              /\ c.pc = "done"
              /\ c.attempts = 0
              /\ c.img_calls = << >> /\ c.fetches = 0 /\ c.reads = 0
              /\ c.entry = "run_query" =>
                    c.result = ErrorDict(NoQueryText, << >>, "")
              /\ c.entry = "run_query_stream" =>
                    c.events = <<ErrorEvent(NoQueryText, << >>, "")>>
C8_Witness ==
    \E p \in Procs :
        /\ call[p].pc = "done" /\ call[p].query = ""
        /\ call[p].entry = "run_query_stream"
        /\ Len(NormalizedPaths(call[p].given)) = 3
        /\ Len(call[p].events) = 1

\* C9: when an image reference of a call cannot be normalised the call stops at
\* the first such reference in list order: the model is never invoked, no later
\* reference is processed, and the outcome is one error (the result of
\* run_query, the only event of run_query_stream) that names that reference.
C9_FirstImageFailureStops ==
    \A p \in Procs :
        LET c == call[p]
            paths == NormalizedPaths(c.given)
            k == FirstFailing(paths)
        IN (c.pc # "idle" /\ c.query # "" /\ k > 0) =>
              /\ c.attempts = 0
              /\ c.pc \in {"images", "done"}
              /\ Len(c.img_calls) <= k
              /\ c.img_calls = SubSeq(paths, 1, Len(c.img_calls))
              /\ c.pc = "done" =>
                    /\ c.img_calls = SubSeq(paths, 1, k)
                    /\ c.entry = "run_query" =>
                          /\ c.result.kind = "dict"
                          /\ c.result.output = ImageErrorText
                          /\ c.result.ref = paths[k]
                    /\ c.entry = "run_query_stream" =>
                          /\ Len(c.events) = 1
                          /\ c.events[1].type = "error"
                          /\ c.events[1].content[1] = ImageErrorText
                          /\ c.events[1].ref = paths[k]
C9_Witness ==
    \E p \in Procs :
        /\ call[p].pc = "done" /\ call[p].entry = "run_query_stream"
        /\ call[p].given = ImageList(<<PathOk, UrlDown, PathMissing>>)
        /\ call[p].events[1].ref = UrlDown
        /\ Len(call[p].img_calls) = 2

\* C10: when the upstream stream ends normally run_query_stream emits exactly
\* one final event, as the last event of the sequence, and no error event.
C10_OneFinalLast ==
    \A p \in Procs :
        LET c == call[p]
            n == Len(c.events)
        IN c.upstream = "ended" =>
              /\ n >= 1
              /\ c.events[n].type = "final"
              /\ Count(c.events, "final") = 1
              /\ Count(c.events, "error") = 0
C10_Witness ==
    \E p \in Procs :
        /\ call[p].upstream = "ended"
        /\ Len(call[p].events) = 3
        /\ call[p].events[3].type = "final"
        /\ call[p].consumed = 3

\* ---------------------------------------------------------- _process_image
\* the references _process_image may be given
Schemes == {"http://", "https://"}
Extensions == {".png", ".jpg", ".jpeg", ".gif", ".webp", ".bmp"}
ImageRefs ==
    {EmptyRef, InlineRef, UrlOk, UrlDown}
    \cup {<<scheme, host>> : scheme \in Schemes, host \in ImageHosts}
    \cup {<<scheme, host, ext>> :
             scheme \in Schemes, host \in ImageHosts, ext \in Extensions}
    \cup {<<"/img/a">>, <<"/img/missing">>}
    \cup {<<dir, ext>> : dir \in {"/img/a", "/img/missing"}, ext \in Extensions}

\* self._process_image(image_path) is awaited on its own
Normalize(p, image_path) ==
    /\ call[p].pc = "idle"
    /\ call' = [call EXCEPT ![p] =
                   [IdleCall EXCEPT !.pc = "normalized", !.entry = "_process_image",
                                    !.img_calls = <<image_path>>,
                                    !.image = _process_image(image_path)]]
    /\ UNCHANGED <<agent_config, message_history, usage, ncalls, last_done, setup>>

\* ... and once more on the value it returned
NormalizeAgain(p) ==
    /\ call[p].pc = "normalized"
    /\ call[p].image.status \in {"value", "none"}
    /\ call' = [call EXCEPT ![p] =
                   [call[p] EXCEPT !.pc = "renormalized",
                                   !.again = _process_image(call[p].image.value)]]
    /\ UNCHANGED <<agent_config, message_history, usage, ncalls, last_done, setup>>

NextImage ==
    \E p \in SerialCallers :
        \/ call[p].pc = "idle" /\ \E image_path \in ImageRefs : Normalize(p, image_path)
        \/ NormalizeAgain(p)

SpecImage == Init /\ [][NextImage]_vars

\* ------------------------------------------------- validate_and_fix_toolsets
\* a property of a tool's inputSchema; type is what the schema declares for it:
\* "missing" (no 'type' key), "" (empty string), "[]" (empty list), or a type
Prop(name, type) == [name |-> name, type |-> type]
\* a tool: schema is "none" (no inputSchema), "bare" (no 'properties'), "props"
Tool(name, schema, props) == [name |-> name, schema |-> schema, props |-> props]
\* a toolset: whether it has list_tools, the error list_tools raises ("" if
\* none), the shape of the response, and the tools the server declares
Toolset(cls, has_list_tools, error, shape, tools) ==
    [cls |-> cls, has_list_tools |-> has_list_tools, error |-> error,
     shape |-> shape, tools |-> tools]

GoodTool == Tool("search", "props", <<Prop("q", "string"), Prop("tags", "[string]")>>)
NoSchemaTool == Tool("ping", "none", << >>)
BareTool == Tool("now", "bare", << >>)
MissingTypeTool == Tool("fetch", "props", <<Prop("url", "missing")>>)
EmptyTypeTool == Tool("read", "props", <<Prop("path", "")>>)
EmptyListTool == Tool("write", "props", <<Prop("mode", "[]")>>)
TwoIssuesTool ==
    Tool("edit", "props", <<Prop("a", "string"), Prop("b", "missing"), Prop("c", "[]")>>)

ToolsetKinds ==
    { Toolset("FunctionToolset", FALSE, "", "none", <<MissingTypeTool>>),
      Toolset("MCPServerSSE", TRUE, "connection refused", "none", <<GoodTool>>),
      Toolset("MCPServerStreamableHTTP", TRUE, "", "tools_attr", <<GoodTool, NoSchemaTool>>),
      Toolset("MCPServerStdio", TRUE, "", "list", <<BareTool>>),
      Toolset("MCPServerStdio", TRUE, "", "other", <<MissingTypeTool>>),
      Toolset("MCPServerStreamableHTTP", TRUE, "", "list", <<GoodTool, MissingTypeTool>>),
      Toolset("MCPServerSSE", TRUE, "", "tools_attr", <<EmptyTypeTool, GoodTool>>),
      Toolset("MCPServerStdio", TRUE, "", "list", <<EmptyListTool>>),
      Toolset("MCPServerSSE", TRUE, "", "list", <<TwoIssuesTool>>) }
\* the lists validate_and_fix_toolsets is called with
ToolsetLists == UNION {[1..n -> ToolsetKinds] : n \in 0..MaxToolsets}

\* `not prop_def['type']`
Falsy(type) == type \in {"", "[]"}
\* the issue recorded for one property (lines 57-63), << >> when there is none
PropIssue(tool, prop) ==
    IF prop.type = "missing" \/ Falsy(prop.type)
    THEN <<[tool |-> tool.name, prop |-> prop.name, what |-> "missing/empty type"]>>
    ELSE IF prop.type = "[]"
    THEN <<[tool |-> tool.name, prop |-> prop.name, what |-> "empty type array"]>>
    ELSE << >>
RECURSIVE PropIssues(_, _)
PropIssues(tool, props) ==
    IF props = << >> THEN << >>
    ELSE PropIssue(tool, Head(props)) \o PropIssues(tool, Tail(props))
\* the issues of one tool (lines 48-65)
ToolIssues(tool) ==
    IF tool.schema = "props" THEN PropIssues(tool, tool.props) ELSE << >>
RECURSIVE IssuesFound(_)
IssuesFound(tools) ==
    IF tools = << >> THEN << >>
    ELSE ToolIssues(Head(tools)) \o IssuesFound(Tail(tools))
\* tools_response.tools, the list itself, or [] (lines 36-41)
ResponseTools(toolset) ==
    IF toolset.shape \in {"tools_attr", "list"} THEN toolset.tools ELSE << >>

SchemaWarning(toolset, issues) ==
    [kind |-> "schema issues", cls |-> toolset.cls, issues |-> issues, error |-> ""]
ErrorWarning(toolset) ==
    [kind |-> "validation error", cls |-> toolset.cls, issues |-> << >>,
     error |-> toolset.error]

\* mutant of ValidateToolset: a toolset with issues is admitted all the same
ValidateToolsetAdmitting(toolset) ==
    IF ~toolset.has_list_tools
    THEN [admit |-> TRUE, warnings |-> << >>, listed |-> FALSE]
    ELSE IF toolset.error # ""
    THEN [admit |-> FALSE, warnings |-> <<ErrorWarning(toolset)>>, listed |-> TRUE]
    ELSE LET issues_found == IssuesFound(ResponseTools(toolset))
         IN IF issues_found # << >>
            THEN [admit |-> TRUE, warnings |-> <<SchemaWarning(toolset, issues_found)>>,
                  listed |-> TRUE]
            ELSE [admit |-> TRUE, warnings |-> << >>, listed |-> TRUE]

\* mutant of ValidateToolset: a toolset that cannot be enumerated is excluded
ValidateToolsetStrict(toolset) ==
    IF ~toolset.has_list_tools
    THEN [admit |-> FALSE,
          warnings |-> <<[ErrorWarning(toolset) EXCEPT !.error = "no list_tools"]>>,
          listed |-> FALSE]
    ELSE IF toolset.error # ""
    THEN [admit |-> FALSE, warnings |-> <<ErrorWarning(toolset)>>, listed |-> TRUE]
    ELSE LET issues_found == IssuesFound(ResponseTools(toolset))
         IN IF issues_found # << >>
            THEN [admit |-> FALSE, warnings |-> <<SchemaWarning(toolset, issues_found)>>,
                  listed |-> TRUE]
            ELSE [admit |-> TRUE, warnings |-> << >>, listed |-> TRUE]

\* one turn of `for toolset in toolsets` (lines 28-95)
ValidateToolset(toolset) ==
    IF ~toolset.has_list_tools
    THEN [admit |-> TRUE, warnings |-> << >>, listed |-> FALSE]
    ELSE IF toolset.error # ""
    THEN [admit |-> FALSE, warnings |-> <<ErrorWarning(toolset)>>, listed |-> TRUE]
    ELSE LET issues_found == IssuesFound(ResponseTools(toolset))
         IN IF issues_found # << >>
            THEN [admit |-> FALSE, warnings |-> <<SchemaWarning(toolset, issues_found)>>,
                  listed |-> TRUE]
            ELSE [admit |-> TRUE, warnings |-> << >>, listed |-> TRUE]

\* validate_and_fix_toolsets(toolsets) is called
CallValidate(toolsets) ==
    /\ setup.pc = "idle"
    /\ setup' = [IdleSetup EXCEPT !.pc = "validating", !.given = toolsets, !.cursor = 1]
    /\ UNCHANGED <<agent_config, message_history, usage, call, ncalls, last_done>>

\* mutant of ValidateStep: an enumeration failure ends the validation
ValidateStepStopping ==
    LET i == setup.cursor
        r == ValidateToolset(setup.given[i])
    IN /\ setup.pc = "validating"
       /\ i <= Len(setup.given)
       /\ setup' = [setup EXCEPT
             !.cursor = IF setup.given[i].has_list_tools /\ setup.given[i].error # ""
                        THEN Len(setup.given) + 1 ELSE i + 1,
             !.kept = IF r.admit THEN Append(setup.kept, i) ELSE setup.kept,
             !.all_warnings = setup.all_warnings \o r.warnings,
             !.enumerated = IF r.listed THEN Append(setup.enumerated, i)
                            ELSE setup.enumerated]
       /\ UNCHANGED <<agent_config, message_history, usage, call, ncalls, last_done>>

\* mutant of ValidateStep: an admitted toolset is put in front of the validated list
ValidateStepPrepending ==
    LET i == setup.cursor
        r == ValidateToolset(setup.given[i])
    IN /\ setup.pc = "validating"
       /\ i <= Len(setup.given)
       /\ setup' = [setup EXCEPT
             !.cursor = i + 1,
             !.kept = IF r.admit THEN <<i>> \o setup.kept ELSE setup.kept,
             !.all_warnings = setup.all_warnings \o r.warnings,
             !.enumerated = IF r.listed THEN Append(setup.enumerated, i)
                            ELSE setup.enumerated]
       /\ UNCHANGED <<agent_config, message_history, usage, call, ncalls, last_done>>

\* the loop takes the next toolset
ValidateStep ==
    LET i == setup.cursor
        r == ValidateToolset(setup.given[i])
    IN /\ setup.pc = "validating"
       /\ i <= Len(setup.given)
       /\ setup' = [setup EXCEPT
             !.cursor = i + 1,
             !.kept = IF r.admit THEN Append(setup.kept, i) ELSE setup.kept,
             !.all_warnings = setup.all_warnings \o r.warnings,
             !.enumerated = IF r.listed THEN Append(setup.enumerated, i)
                            ELSE setup.enumerated]
       /\ UNCHANGED <<agent_config, message_history, usage, call, ncalls, last_done>>

\* the toolsets of the list at the indices ks
Pick(list, ks) == [j \in 1..Len(ks) |-> list[ks[j]]]

\* return validated_toolsets, all_warnings
ValidateReturn ==
    /\ setup.pc = "validating"
    /\ setup.cursor > Len(setup.given)
    /\ setup' = [setup EXCEPT !.pc = "validated",
                              !.toolsets = Pick(setup.given, setup.kept),
                              !.validation_warnings = setup.all_warnings]
    /\ UNCHANGED <<agent_config, message_history, usage, call, ncalls, last_done>>

NextValidate ==
    \/ setup.pc = "idle" /\ \E toolsets \in ToolsetLists : CallValidate(toolsets)
    \/ ValidateStep
    \/ ValidateReturn

SpecValidate == Init /\ [][NextValidate]_vars

\* ------------------------------------------- load_mcp_servers_from_config
\* strings that are split or joined on blanks are sequences of words:
\* ' '.join(parts) concatenates, s.split() is the sequence itself
NoWords == << >>
\* MCPServerModel(url=..., type=...)
MCPServerModel(url, type) == [url |-> url, type |-> type]
\* one entry of "servers": type is "absent" or the string given; url and
\* command are NoWords when absent or empty; args is absent, a list of
\* strings, or bad (a value that is not a list)
Entry(type, url, command, args_tag, args) ==
    [dict |-> TRUE, type |-> type, url |-> url, command |-> command,
     args_tag |-> args_tag, args |-> args]
\* an entry that is not an object
NotAnObject == [dict |-> FALSE, type |-> "absent", url |-> NoWords,
                command |-> NoWords, args_tag |-> "absent", args |-> << >>]
Entries ==
    { Entry("http", <<"https://a/mcp">>, NoWords, "absent", << >>),
      Entry("sse", <<"https://b/sse">>, NoWords, "absent", << >>),
      Entry("absent", <<"https://c/mcp">>, NoWords, "absent", << >>),
      Entry("http", NoWords, NoWords, "absent", << >>),
      Entry("bogus", <<"https://d/mcp">>, NoWords, "absent", << >>),
      Entry("stdio", NoWords, <<"uv">>, "list", <<<<"run">>, <<"my", "server.py">>>>),
      Entry("stdio", NoWords, <<"npx">>, "absent", << >>),
      Entry("stdio", NoWords, NoWords, "absent", << >>),
      Entry("stdio", NoWords, NoWords, "list", <<<<"serve">>>>),
      Entry("stdio", NoWords, <<"uv">>, "bad", << >>),
      NotAnObject }
\* a configuration document: the file (missing; unsearchable: stat fails with
\* an error other than not-found; unreadable: open fails; present), whether
\* its text parses, the top-level value, and the value under "servers"
Doc(file, text, top, servers, entries) ==
    [file |-> file, text |-> text, top |-> top, servers |-> servers,
     entries |-> entries]
Docs ==
    { Doc("missing", "none", "none", "none", << >>),
      Doc("unsearchable", "none", "none", "none", << >>),
      Doc("unreadable", "none", "none", "none", << >>),
      Doc("present", "unparsable", "none", "none", << >>),
      Doc("present", "json", "list", "none", << >>),
      Doc("present", "json", "object", "absent", << >>),
      Doc("present", "json", "object", "list", << >>) }
    \cup {Doc("present", "json", "object", "object", entries) :
             entries \in UNION {[1..n -> Entries] : n \in 0..MaxServers}}

RECURSIVE Join(_)
\* ' '.join(strings)
Join(strings) ==
    IF strings = << >> THEN NoWords ELSE Head(strings) \o Join(Tail(strings))

\* the body of `for server_name, server_config in mcp_servers.items()` for one
\* entry (lines 140-160): the descriptors appended, or raise
LoadEntry(server_config) ==
    IF ~server_config.dict
    THEN [raise |-> TRUE, servers |-> << >>]
    ELSE LET transport == IF server_config.type = "absent" THEN "http"
                          ELSE server_config.type
         IN IF transport = "stdio"
            THEN IF server_config.args_tag = "bad"
                 THEN [raise |-> TRUE, servers |-> << >>]
                 ELSE IF server_config.args_tag = "list" /\ server_config.args # << >>
                 THEN [raise |-> FALSE,
                       servers |-> <<MCPServerModel(
                                        Join(<<server_config.command>> \o server_config.args),
                                        "stdio")>>]
                 ELSE IF server_config.command # NoWords
                 THEN [raise |-> FALSE,
                       servers |-> <<MCPServerModel(server_config.command, "stdio")>>]
                 ELSE [raise |-> FALSE, servers |-> << >>]
            ELSE IF server_config.url # NoWords
                 THEN [raise |-> FALSE,
                       servers |-> <<MCPServerModel(server_config.url, transport)>>]
                 ELSE [raise |-> FALSE, servers |-> << >>]
RECURSIVE LoadEntries(_)
LoadEntries(entries) ==
    IF entries = << >> THEN [raise |-> FALSE, servers |-> << >>]
    ELSE LET first == LoadEntry(Head(entries))
             rest == LoadEntries(Tail(entries))
         IN [raise |-> first.raise \/ rest.raise,
             servers |-> first.servers \o rest.servers]

\* Path(config_path).exists(): stat errors other than not-found are re-raised
Exists(doc) ==
    IF doc.file = "unsearchable" THEN [status |-> "raise", value |-> FALSE]
    ELSE [status |-> "value", value |-> doc.file # "missing"]

\* load_mcp_servers_from_config(config_path), for the document at config_path
load_mcp_servers_from_config(doc) ==
    IF Exists(doc).status = "raise"
    THEN [status |-> "raise", servers |-> << >>, err |-> "PermissionError"]
    ELSE IF ~Exists(doc).value
    THEN [status |-> "value", servers |-> << >>, err |-> ""]
    ELSE IF \/ doc.file = "unreadable"        \* open() raises
            \/ doc.text = "unparsable"        \* json.JSONDecodeError
            \/ doc.top # "object"             \* config_data.get raises
            \/ doc.servers = "list"           \* mcp_servers.items raises
    THEN [status |-> "value", servers |-> << >>, err |-> ""]
    ELSE IF doc.servers = "absent"
    THEN [status |-> "value", servers |-> << >>, err |-> ""]
    ELSE LET loaded == LoadEntries(doc.entries)
         IN IF loaded.raise
            THEN [status |-> "value", servers |-> << >>, err |-> ""]
            ELSE [status |-> "value", servers |-> loaded.servers, err |-> ""]

\* what kind of document the caller handed over
DocClass(doc) ==
    IF doc.file # "present" THEN doc.file
    ELSE IF doc.text = "unparsable" THEN "unparsable"
    ELSE IF \/ doc.top # "object"
            \/ doc.servers = "list"
            \/ doc.servers = "object" /\ LoadEntries(doc.entries).raise
    THEN "malformed"
    ELSE "wellformed"

\* load_mcp_servers_from_config(config_path) is called on its own
CallLoad(doc) ==
    /\ setup.pc = "idle"
    /\ setup' = [IdleSetup EXCEPT !.pc = "load", !.by = "load",
                                  !.doc_class = DocClass(doc),
                                  !.entries = doc.entries,
                                  !.given = <<doc>>]
    /\ UNCHANGED <<agent_config, message_history, usage, call, ncalls, last_done>>

\* ... and returns its list, or raises
LoadReturn ==
    LET loaded == load_mcp_servers_from_config(setup.given[1])
    IN /\ setup.pc = "load"
       /\ setup' = IF loaded.status = "raise"
                   THEN [setup EXCEPT !.pc = "raised", !.raised = loaded.err]
                   ELSE [setup EXCEPT !.pc = "loaded", !.tools_urls = loaded.servers]
       /\ UNCHANGED <<agent_config, message_history, usage, call, ncalls, last_done>>

NextLoad ==
    \/ setup.pc = "idle" /\ \E doc \in Docs : CallLoad(doc)
    \/ LoadReturn

SpecLoad == Init /\ [][NextLoad]_vars

\* ----------------------------------------------------- setup_mcp_toolsets
\* what the server behind a toolset answers to list_tools
ServerAnswers ==
    { [error |-> "", tools |-> <<GoodTool>>, constructs |-> TRUE],
      [error |-> "", tools |-> <<GoodTool, MissingTypeTool>>, constructs |-> TRUE],
      [error |-> "connection refused", tools |-> <<GoodTool>>, constructs |-> TRUE] }
\* ... and a server whose handle cannot be constructed (the constructor raises)
FactoryAnswers ==
    { [error |-> "", tools |-> <<GoodTool>>, constructs |-> TRUE],
      [error |-> "", tools |-> <<GoodTool>>, constructs |-> FALSE] }
\* an MCP server object made by the factory; answer is its server's behaviour
McpToolset(cls, target, args, answer) ==
    Toolset(cls, TRUE, answer.error, "list", answer.tools)
        @@ [target |-> target, args |-> args]
\* the body of `for tool in tools_urls` (lines 201-242) for one descriptor
SetupTool(tool, answer) ==
    IF tool.type \in {"stdio", "sse", "http"} /\ ~answer.constructs
    THEN << >>                                           \* constructor raises, logged
    ELSE IF tool.type = "stdio"
    THEN LET parts == tool.url
         IN IF parts = << >>
            THEN << >>                                   \* parts[0]: IndexError, logged
            ELSE <<McpToolset("MCPServerStdio", <<parts[1]>>,
                              [k \in 1..(Len(parts) - 1) |-> parts[k + 1]], answer)>>
    ELSE IF tool.type = "sse"
    THEN <<McpToolset("MCPServerSSE", tool.url, << >>, answer)>>
    ELSE IF tool.type = "http"
    THEN <<McpToolset("MCPServerStreamableHTTP", tool.url, << >>, answer)>>
    ELSE << >>                                           \* unknown tool type, logged
RECURSIVE setup_mcp_toolsets(_, _)
\* setup_mcp_toolsets(tools_urls), answers[i] being the server of tools_urls[i]
setup_mcp_toolsets(tools_urls, answers) ==
    IF tools_urls = << >> THEN << >>
    ELSE SetupTool(Head(tools_urls), Head(answers))
            \o setup_mcp_toolsets(Tail(tools_urls), Tail(answers))

\* the descriptors setup_mcp_toolsets may be given
FactoryDescriptors ==
    { MCPServerModel(<<"https://a/mcp">>, "http"),
      MCPServerModel(<<"https://b/sse">>, "sse"),
      MCPServerModel(<<"uv", "run", "server.py">>, "stdio"),
      MCPServerModel(NoWords, "stdio"),
      MCPServerModel(<<"https://d/mcp">>, "bogus") }

\* setup_mcp_toolsets(tools_urls) is called on its own
CallFactory(tools_urls, answers) ==
    /\ setup.pc = "idle"
    /\ Len(answers) = Len(tools_urls)
    /\ setup' = [IdleSetup EXCEPT !.pc = "making", !.by = "factory",
                                  !.tools_urls = tools_urls, !.answers = answers,
                                  !.cursor = 1]
    /\ UNCHANGED <<agent_config, message_history, usage, call, ncalls, last_done>>

\* mutant of FactoryStep: a descriptor that yields no handle ends the loop
FactoryStepStopping ==
    LET i == setup.cursor
        made == SetupTool(setup.tools_urls[i], setup.answers[i])
    IN /\ setup.pc = "making"
       /\ i <= Len(setup.tools_urls)
       /\ setup' = [setup EXCEPT
             !.cursor = IF made = << >> THEN Len(setup.tools_urls) + 1 ELSE i + 1,
             !.factory = setup.factory \o made]
       /\ UNCHANGED <<agent_config, message_history, usage, call, ncalls, last_done>>

\* one turn of `for tool in tools_urls`
FactoryStep ==
    LET i == setup.cursor
        made == SetupTool(setup.tools_urls[i], setup.answers[i])
    IN /\ setup.pc = "making"
       /\ i <= Len(setup.tools_urls)
       /\ setup' = [setup EXCEPT !.cursor = i + 1,
                                 !.factory = setup.factory \o made]
       /\ UNCHANGED <<agent_config, message_history, usage, call, ncalls, last_done>>

\* return toolsets
FactoryReturn ==
    /\ setup.pc = "making"
    /\ setup.cursor > Len(setup.tools_urls)
    /\ setup' = [setup EXCEPT !.pc = "made", !.toolsets = setup.factory]
    /\ UNCHANGED <<agent_config, message_history, usage, call, ncalls, last_done>>

NextFactory ==
    \/ setup.pc = "idle" /\ \E n \in 0..MaxServers :
          \E tools_urls \in [1..n -> FactoryDescriptors],
             answers \in [1..n -> FactoryAnswers] : CallFactory(tools_urls, answers)
    \/ FactoryStep
    \/ FactoryReturn

SpecFactory == Init /\ [][NextFactory]_vars

\* --------------------------- a document loaded, then its servers constructed
\* setup_mcp_toolsets(load_mcp_servers_from_config(path)), as AgentCore.__init__
\* composes them; the document's entries stay on record
MakeLoaded(answers) ==
    /\ setup.by = "load"
    /\ setup.pc = "loaded"
    /\ Len(answers) = Len(setup.tools_urls)
    /\ setup' = [setup EXCEPT !.pc = "made", !.answers = answers,
                              !.factory = setup_mcp_toolsets(setup.tools_urls, answers),
                              !.toolsets = setup_mcp_toolsets(setup.tools_urls, answers)]
    /\ UNCHANGED <<agent_config, message_history, usage, call, ncalls, last_done>>

NextLaunch ==
    \/ setup.pc = "idle" /\ \E doc \in Docs : CallLoad(doc)
    \/ LoadReturn
    \/ setup.pc = "loaded" /\
          \E answers \in [1..Len(setup.tools_urls) -> FactoryAnswers] : MakeLoaded(answers)

SpecLaunch == Init /\ [][NextLaunch]_vars

\* ------------------------------------------------------ AgentCore.__init__
\* the event loop at construction: one is running; none is running; none is
\* running and a new one cannot be created
LoopStates == {"running", "none", "unavailable"}
\* tools_urls given by the caller instead of a configuration document
ExplicitUrls ==
    { << >>,
      <<MCPServerModel(<<"https://a/mcp">>, "http"),
        MCPServerModel(<<"uv", "run", "server.py">>, "stdio")>> }

\* AgentCore(tools_urls=None, mcp_config_path=...): the document is loaded
ConstructFromConfig(doc, loop) ==
    LET loaded == load_mcp_servers_from_config(doc)
    IN /\ setup.pc = "idle"
       /\ setup' = IF loaded.status = "raise"
                   THEN [IdleSetup EXCEPT !.pc = "raised", !.by = "init", !.loop = loop,
                                          !.doc_class = DocClass(doc),
                                          !.raised = loaded.err]
                   ELSE [IdleSetup EXCEPT !.pc = "factory", !.by = "init", !.loop = loop,
                                          !.doc_class = DocClass(doc),
                                          !.tools_urls = loaded.servers]
       /\ UNCHANGED <<agent_config, message_history, usage, call, ncalls, last_done>>

\* AgentCore(tools_urls=[...])
ConstructWithUrls(tools_urls, loop) ==
    /\ setup.pc = "idle"
    /\ setup' = [IdleSetup EXCEPT !.pc = "factory", !.by = "init", !.loop = loop,
                                  !.tools_urls = tools_urls]
    /\ UNCHANGED <<agent_config, message_history, usage, call, ncalls, last_done>>

\* self.toolsets = setup_mcp_toolsets(tools_urls, ...); self.validation_warnings = []
MakeToolsets(answers) ==
    /\ setup.pc = "factory"
    /\ Len(answers) = Len(setup.tools_urls)
    /\ setup' = [setup EXCEPT !.pc = "validate",
                              !.toolsets = setup_mcp_toolsets(setup.tools_urls, answers),
                              !.factory = setup_mcp_toolsets(setup.tools_urls, answers),
                              !.validation_warnings = << >>]
    /\ UNCHANGED <<agent_config, message_history, usage, call, ncalls, last_done>>

\* mutant of SkipValidation: with a loop running the toolsets are dropped
SkipValidationDropping ==
    /\ setup.pc = "validate"
    /\ setup.loop = "running"
    /\ setup' = [setup EXCEPT !.pc = "model", !.toolsets = << >>]
    /\ UNCHANGED <<agent_config, message_history, usage, call, ncalls, last_done>>

\* asyncio.get_running_loop() returns: validation is skipped (lines 72-74)
SkipValidation ==
    /\ setup.pc = "validate"
    /\ setup.loop = "running"
    /\ setup' = [setup EXCEPT !.pc = "model"]
    /\ UNCHANGED <<agent_config, message_history, usage, call, ncalls, last_done>>

\* asyncio.new_event_loop() raises: `except Exception` (lines 85-86)
ValidationUnavailable ==
    /\ setup.pc = "validate"
    /\ setup.loop = "unavailable"
    /\ setup' = [setup EXCEPT !.pc = "model", !.raised = "new_event_loop"]
    /\ UNCHANGED <<agent_config, message_history, usage, call, ncalls, last_done>>

\* loop.run_until_complete(validate_and_fix_toolsets(self.toolsets)) starts
BeginValidation ==
    /\ setup.pc = "validate"
    /\ setup.loop = "none"
    /\ setup' = [setup EXCEPT !.pc = "validating", !.given = setup.toolsets,
                              !.cursor = 1]
    /\ UNCHANGED <<agent_config, message_history, usage, call, ncalls, last_done>>

\* __init__ goes on after the validation returned (loop.close())
FinishConstruction ==
    /\ setup.pc = "validated"
    /\ setup.by = "init"
    /\ setup' = [setup EXCEPT !.pc = "model"]
    /\ UNCHANGED <<agent_config, message_history, usage, call, ncalls, last_done>>

\* self.model = OpenAIChatModel(...) from the resolved LLM provider
SetUpModel ==
    /\ setup.pc = "model"
    /\ setup' = [setup EXCEPT !.pc = "embedding", !.model = "OpenAIChatModel"]
    /\ UNCHANGED <<agent_config, message_history, usage, call, ncalls, last_done>>

\* get_embedding_provider(emb_cfg) returns
EmbeddingResolved ==
    /\ setup.pc = "embedding"
    /\ setup' = [setup EXCEPT !.pc = "agent", !.embedding = "provider",
                              !.embedding_model_name = "model_name"]
    /\ UNCHANGED <<agent_config, message_history, usage, call, ncalls, last_done>>

\* mutant of EmbeddingUnavailable: the failure ends the construction
EmbeddingUnavailableFatal ==
    /\ setup.pc = "embedding"
    /\ setup' = [setup EXCEPT !.pc = "raised", !.raised = "embedding"]
    /\ UNCHANGED <<agent_config, message_history, usage, call, ncalls, last_done>>

\* EmbeddingProviderConfig.from_env() or get_embedding_provider raises
EmbeddingUnavailable ==
    /\ setup.pc = "embedding"
    /\ setup' = [setup EXCEPT !.pc = "agent", !.embedding = "None",
                              !.embedding_model_name = "None",
                              !.raised = "embedding"]
    /\ UNCHANGED <<agent_config, message_history, usage, call, ncalls, last_done>>

\* self.agent = Agent(...); self.usage = RequestUsage(); self.message_history = []
CreateAgent ==
    /\ setup.pc = "agent"
    /\ setup' = [setup EXCEPT !.pc = "constructed", !.agent = "Agent"]
    /\ usage' = ZeroUsage
    /\ message_history' = << >>
    /\ UNCHANGED <<agent_config, call, ncalls, last_done>>

NextSetup ==
    \/ setup.pc = "idle" /\ \E doc \in Docs, loop \in LoopStates :
          ConstructFromConfig(doc, loop)
    \/ \E tools_urls \in ExplicitUrls, loop \in LoopStates :
          ConstructWithUrls(tools_urls, loop)
    \/ setup.pc = "factory" /\ \E answers \in [1..Len(setup.tools_urls) -> ServerAnswers] :
          MakeToolsets(answers)
    \/ SkipValidation
    \/ ValidationUnavailable
    \/ BeginValidation
    \/ ValidateStep
    \/ ValidateReturn
    \/ FinishConstruction
    \/ SetUpModel
    \/ EmbeddingResolved
    \/ EmbeddingUnavailable
    \/ CreateAgent

SpecSetup == Init /\ [][NextSetup]_vars

\* ------------------------------------------- failures of the collaborators
\* the texts of the handlers on the outer try of either entry point
CriticalQueryText == "Critical error during query execution"
KeyErrorText == "KeyError during streaming: malformed tool schemas or model template"
CriticalStreamText == "Critical error during streaming"

\* mutant of Handlers: the entry points without their outer try
HandlersInnerOnly(entry, site) ==
    IF entry = "run_query"
    THEN IF site \in {"build", "usage", "all_messages"} THEN <<"attempt">> ELSE << >>
    ELSE IF site = "event" THEN <<"event", "stream">> ELSE << >>

\* the handlers around each of those places, innermost first
Handlers(entry, site) ==
    IF entry = "run_query"
    THEN IF site \in {"build", "usage", "all_messages"}
         THEN <<"attempt", "top">>          \* the try of one attempt (101-122)
         ELSE <<"top">>                     \* "sleep": inside the except block
    ELSE IF site = "event"
         THEN <<"event", "stream", "top">>  \* 206-260 inside 187-275
         ELSE <<"top">>                     \* "build": lines 177-181

\* the frame after exc was raised at site: the innermost handler takes it
Catch(c, site, exc) ==
    LET hs == Handlers(c.entry, site)
    IN IF hs = << >>
       THEN [c EXCEPT !.pc = "escaped", !.raised = exc]
       ELSE IF hs[1] = "attempt" THEN [AfterError(c) EXCEPT !.raised = exc]
       ELSE IF hs[1] = "event"
       THEN [c EXCEPT !.consumed = c.consumed + 1, !.raised = exc]
       ELSE IF c.entry = "run_query"
       THEN [c EXCEPT !.pc = "done", !.raised = exc,
                      !.result = ErrorDict(CriticalQueryText, << >>, exc)]
       ELSE [c EXCEPT !.pc = "done", !.raised = exc,
                      !.events = Append(c.events,
                                        ErrorEvent(IF exc = "KeyError" THEN KeyErrorText
                                                   ELSE CriticalStreamText,
                                                   << >>, exc))]

\* one call of either entry point, on any input
StartOnce(p, entry, query, image_paths) ==
    /\ ncalls = 0
    /\ Start(p, entry, query, image_paths)

\* ImageUrl(url=img) raises while the message content is built
BuildRaises(p, exc) ==
    /\ \/ call[p].entry = "run_query" /\ call[p].pc = "attempt"
       \/ call[p].entry = "run_query_stream" /\ call[p].pc = "open"
    /\ call[p].processed_images # << >>
    /\ call' = [call EXCEPT ![p] = Catch(call[p], "build", exc)]
    /\ UNCHANGED <<agent_config, message_history, usage, ncalls, last_done, setup>>

\* the run returns a result whose usage() raises: nothing is stored
UsageRaises(p, exc) ==
    /\ call[p].pc = "await"
    /\ call' = [call EXCEPT ![p] =
                   [Catch(call[p], "usage", exc) EXCEPT !.outcome = "raise"]]
    /\ UNCHANGED <<agent_config, message_history, usage, ncalls, last_done, setup>>

\* the run returns a result whose all_messages() raises: usage is stored already
AllMessagesRaises(p, u, exc) ==
    /\ call[p].pc = "await"
    /\ usage' = u
    /\ call' = [call EXCEPT ![p] =
                   [Catch(call[p], "all_messages", exc) EXCEPT !.outcome = "raise"]]
    /\ UNCHANGED <<agent_config, message_history, ncalls, last_done, setup>>

\* asyncio.sleep(1), awaited inside the except block, raises
SleepRaises(p, exc) ==
    /\ call[p].pc = "sleep"
    /\ call' = [call EXCEPT ![p] = Catch(call[p], "sleep", exc)]
    /\ UNCHANGED <<agent_config, message_history, usage, ncalls, last_done, setup>>

\* reading an attribute of an upstream event raises while it is translated
EventRaises(p, exc) ==
    /\ call[p].pc = "stream"
    /\ call[p].upstream = "open"
    /\ call[p].consumed < MaxEvents
    /\ call' = [call EXCEPT ![p] = Catch(call[p], "event", exc)]
    /\ UNCHANGED <<agent_config, message_history, usage, ncalls, last_done, setup>>

\* the AgentRunResultEvent's result.all_messages() raises: usage is stored
\* already (208), the per-event handler logs it and the stream goes on to end
ResultEventRaises(p, u, exc) ==
    /\ call[p].pc = "stream"
    /\ call[p].upstream = "open"
    /\ usage' = u
    /\ call' = [call EXCEPT ![p] =
                   [Catch(call[p], "event", exc) EXCEPT !.upstream = "completed",
                                                        !.outcome = "raise"]]
    /\ UNCHANGED <<agent_config, message_history, ncalls, last_done, setup>>

FaultStep(p) ==
    \/ \E entry \in EntryPoints, query \in Queries, image_paths \in ImageInputs :
          StartOnce(p, entry, query, image_paths)
    \/ ProcessImage(p)
    \/ InvokeModel(p)
    \/ \E u \in RunUsages : ModelReturnsResult(p, u)
    \/ ModelReturnsEmpty(p)
    \/ ModelRaises(p)
    \/ Wake(p)
    \/ OpenStream(p)
    \/ \E event \in UpstreamEvents : StreamEvent(p, event)
    \/ \E u \in RunUsages : StreamCompletes(p, u)
    \/ StreamEnds(p)
    \/ \E exc \in StreamErrors :
          \/ StreamThrows(p, exc)
          \/ BuildRaises(p, exc)
          \/ UsageRaises(p, exc)
          \/ \E u \in RunUsages : AllMessagesRaises(p, u, exc)
          \/ \E u \in RunUsages : ResultEventRaises(p, u, exc)
          \/ SleepRaises(p, exc)
          \/ EventRaises(p, exc)
    \/ Return(p)

NextFault == \E p \in SerialCallers : FaultStep(p)

SpecFault == Init /\ [][NextFault]_vars

\* ---------------------------------------------------------------- streams
\* the contents of the events of one type, joined in order
RECURSIVE ConcatType(_, _)
ConcatType(events, type) ==
    IF events = << >> THEN << >>
    ELSE LET n == Len(events)
         IN ConcatType(SubSeq(events, 1, n - 1), type)
               \o (IF events[n].type = type THEN events[n].content ELSE << >>)

\* what the upstream events consumed so far have put on the outward sequence
RECURSIVE Forwarded(_)
Forwarded(seen) ==
    IF seen = << >> THEN << >>
    ELSE LET n == Len(seen)
         IN Forwarded(SubSeq(seen, 1, n - 1)) \o Translate(seen[n])

\* C11: when the upstream stream throws partway through, run_query_stream
\* emits exactly one error event, as the last event of the sequence; the
\* events emitted before the throw stay in front of it, and there is no final.
C11_ThrowEndsWithOneError ==
    \A p \in Procs :
        LET c == call[p]
            n == Len(c.events)
        IN c.upstream = "raised" =>
              /\ n >= 1
              /\ c.events[n].type = "error"
              /\ Count(c.events, "error") = 1
              /\ Count(c.events, "final") = 0
              /\ SubSeq(c.events, 1, n - 1) = Forwarded(c.seen)
C11_Witness ==
    \E p \in Procs :
        /\ call[p].upstream = "raised"
        /\ Len(call[p].events) = 3
        /\ call[p].events[1].type = "text_delta"
        /\ call[p].events[2].type = "tool_call"
        /\ call[p].events[3].type = "error"


\* C12: a KeyError raised while the stream's events are received ends the
\* sequence with the expanded diagnostic (malformed tool schemas, model
\* template), not with the bare text of the exception.
C12_KeyErrorDiagnostic ==
    \A p \in Procs :
        LET c == call[p]
        IN (c.upstream = "raised" /\ c.raised = "KeyError") =>
              c.events[Len(c.events)].content = <<KeyErrorText, "KeyError">>

\* C13: in a stream that ends with a final event, final.content is the
\* in-order concatenation of the text_delta contents emitted before it, and
\* final.thinking that of the thinking_delta contents, none exactly when no
\* thinking_delta was emitted.
C13_FinalIsConcatenation ==
    \A p \in Procs :
        LET c == call[p]
            n == Len(c.events)
        IN (n >= 1 /\ c.events[n].type = "final") =>
              /\ c.events[n].content = ConcatType(SubSeq(c.events, 1, n - 1), "text_delta")
              /\ c.events[n].thinking.none <=>
                    Count(SubSeq(c.events, 1, n - 1), "thinking_delta") = 0
              /\ ~c.events[n].thinking.none =>
                    c.events[n].thinking.text =
                       ConcatType(SubSeq(c.events, 1, n - 1), "thinking_delta")
C13_Witness ==
    \E p \in Procs :
        /\ Len(call[p].events) = 3
        /\ call[p].events[1].type = "text_delta" /\ call[p].events[1].content = <<"a">>
        /\ call[p].events[2].type = "text_delta" /\ call[p].events[2].content = <<"b">>
        /\ call[p].events[3].type = "final" /\ call[p].events[3].content = <<"a", "b">>
        /\ call[p].events[3].thinking.none

\* the outward case an upstream event of the four translated kinds stands for
CaseOf(event) ==
    IF event.kind = "PartDeltaEvent" /\ event.delta = "TextPartDelta" THEN "text_delta"
    ELSE IF event.kind = "PartDeltaEvent" /\ event.delta = "ThinkingPartDelta" THEN "thinking_delta"
    ELSE IF event.kind = "FunctionToolCallEvent" THEN "tool_call"
    ELSE IF event.kind = "FunctionToolResultEvent" THEN "tool_result"
    ELSE "none"
IsIncrementOrTool(event) == CaseOf(event) # "none"
\* ... and of those, the ones that carry something to forward
IsForwardable(event) ==
    /\ CaseOf(event) # "none"
    /\ CaseOf(event) \in {"text_delta", "thinking_delta"} => event.chunk # << >>
    /\ CaseOf(event) = "tool_result" => event.readable
IsTranslated(ev) == ev.type \in {"text_delta", "thinking_delta", "tool_call", "tool_result"}
\* the outward events out are the upstream events ups, one for one and in order
OneForOne(out, ups) ==
    /\ Len(out) = Len(ups)
    /\ \A i \in 1..Len(ups) :
          /\ out[i].type = CaseOf(ups[i])
          /\ out[i].type \in {"text_delta", "thinking_delta"} => out[i].content = ups[i].chunk
          /\ out[i].type = "tool_call" => out[i].tool_args = ups[i].args
          /\ out[i].type = "tool_result" => out[i].content = <<ups[i].content>>

\* C14: stream translation is order-preserving and one-to-one on what can be
\* forwarded: each upstream text or thinking increment with non-empty content,
\* each tool invocation request and each tool result whose content can be
\* extracted yields exactly one outward event of the matching case, in upstream
\* order; empty increments, unreadable tool results, run-completion and
\* unrecognized upstream events yield none.
C14_TranslationOneForOne ==
    \A p \in Procs :
        LET c == call[p]
        IN /\ OneForOne(SelectSeq(c.events, IsTranslated), SelectSeq(c.seen, IsForwardable))
           /\ c.pc = "stream" => c.events = SelectSeq(c.events, IsTranslated)
C14_Witness ==
    \E p \in Procs :
        /\ call[p].upstream = "ended"
        /\ Len(call[p].seen) = 3
        /\ call[p].seen[1].kind = "FunctionToolCallEvent"
        /\ call[p].seen[2].kind = "FunctionToolResultEvent" /\ call[p].seen[2].readable
        /\ call[p].seen[3].kind = "AgentRunResultEvent"
        /\ Len(call[p].events) = 3
        /\ call[p].events[1].type = "tool_call"
        /\ call[p].events[2].type = "tool_result"
\* C14 as stated: every upstream text increment, thinking increment, tool
\* invocation request and tool result yields exactly one outward event.
C14_EveryEventOneForOne ==
    \A p \in Procs :
        OneForOne(SelectSeq(call[p].events, IsTranslated),
                  SelectSeq(call[p].seen, IsIncrementOrTool))

IsUnreadableResult(event) == event.kind = "FunctionToolResultEvent" /\ ~event.readable
IsReadable(event) == ~IsUnreadableResult(event)
IsReadableResult(event) == event.kind = "FunctionToolResultEvent" /\ event.readable

\* C15: an upstream tool result whose content cannot be extracted is dropped:
\* no tool_result and no error is emitted for it, the upstream events after it
\* are translated as if it had not been there, and a stream that does not
\* throw still ends with the final event.
C15_UnreadableResultDropped ==
    \A p \in Procs :
        LET c == call[p]
            n == Len(c.events)
        IN (c.raised = "" /\ SelectSeq(c.seen, IsUnreadableResult) # << >>) =>
              /\ c.pc \in {"stream", "done"}
              /\ Count(c.events, "error") = 0
              /\ Count(c.events, "tool_result") = Len(SelectSeq(c.seen, IsReadableResult))
              /\ c.pc = "stream" => c.events = Forwarded(SelectSeq(c.seen, IsReadable))
              /\ c.pc = "done" =>
                    /\ c.upstream = "ended"
                    /\ n >= 1 /\ c.events[n].type = "final"
                    /\ SubSeq(c.events, 1, n - 1) = Forwarded(SelectSeq(c.seen, IsReadable))
C15_Witness ==
    \E p \in Procs :
        /\ call[p].upstream = "ended"
        /\ Len(call[p].seen) = 2
        /\ IsUnreadableResult(call[p].seen[1])
        /\ call[p].seen[2].kind = "PartDeltaEvent" /\ call[p].seen[2].chunk = <<"a">>
        /\ Len(call[p].events) = 2
        /\ call[p].events[1].type = "text_delta"
        /\ call[p].events[2].type = "final"

\* C16: no exception escapes either entry point: whatever the input and
\* whichever collaborator raises, a finished run_query has returned the run's
\* result or an {output: ...} dictionary, and a finished run_query_stream has
\* ended its sequence with a final or an error event.
C16_NothingEscapes ==
    \A p \in Procs :
        LET c == call[p]
            n == Len(c.events)
        IN /\ c.pc # "escaped"
           /\ c.pc = "done" =>
                 /\ c.entry = "run_query" =>
                       /\ c.result.kind \in {"run_result", "dict"}
                       /\ c.result.kind = "dict" => c.result.output # ""
                 /\ c.entry = "run_query_stream" =>
                       /\ n >= 1
                       /\ c.events[n].type \in {"final", "error"}
                       /\ \A i \in 1..(n - 1) : c.events[i].type \notin {"final", "error"}
\* a failed message build reported by the outer handler of run_query_stream,
\* and (second disjunct) a failed sleep by that of run_query
C16_Witness ==
    \E p \in Procs :
        /\ call[p].pc = "done" /\ call[p].raised = "RuntimeError"
        /\ \/ /\ call[p].entry = "run_query_stream"
              /\ call[p].attempts = 0
              /\ call[p].events = <<ErrorEvent(CriticalStreamText, << >>, "RuntimeError")>>
           \/ /\ call[p].entry = "run_query"
              /\ call[p].result = ErrorDict(CriticalQueryText, << >>, "RuntimeError")

\* ------------------------------------------------------------- validation
\* a parameter whose type metadata is missing, empty, or an empty list
IsMalformed(prop) == prop.type \in {"missing", "", "[]"}
\* the (tool, property) pairs of a tool list that are malformed
MalformedIn(tools) ==
    UNION {{<<tools[t].name, tools[t].props[k].name>> :
               k \in {k \in 1..Len(tools[t].props) : IsMalformed(tools[t].props[k])}} :
           t \in {t \in 1..Len(tools) : tools[t].schema = "props"}}
\* the (tool, property) pairs a warning names
NamedBy(warning) ==
    {<<warning.issues[j].tool, warning.issues[j].prop>> : j \in 1..Len(warning.issues)}
InOutput(i) == \E j \in 1..Len(setup.kept) : setup.kept[j] = i
\* the toolset's tools were enumerated and the enumeration succeeded
IsEnumerable(toolset) == toolset.has_list_tools /\ toolset.error = ""
EnumerationFails(toolset) == toolset.has_list_tools /\ toolset.error # ""
IsSchemaWarning(warning) == warning.kind = "schema issues"
IsErrorWarning(warning) == warning.kind = "validation error"
\* the indices of the list, in order, whose toolset satisfies Test
Indices(list, Test(_)) ==
    SelectSeq([i \in 1..Len(list) |-> i], LAMBDA i : Test(list[i]))
HasMalformedResponse(toolset) ==
    IsEnumerable(toolset) /\ MalformedIn(ResponseTools(toolset)) # {}

\* C17: validation is all-or-nothing per toolset: a toolset whose tools are
\* enumerated successfully is in the validated output if and only if none of
\* the enumerated tools has a parameter whose type metadata is missing, empty
\* or an empty list; a toolset without tool enumeration is admitted unchecked
\* and one whose enumeration fails is excluded; for every toolset excluded for
\* its parameters exactly one warning is recorded, and it names each such tool
\* and property.
C17_AllOrNothing ==
    setup.pc = "validated" =>
        LET given == setup.given
            bad == Indices(given, HasMalformedResponse)
            schema_warnings == SelectSeq(setup.validation_warnings, IsSchemaWarning)
        IN /\ \A i \in 1..Len(given) :
                 /\ IsEnumerable(given[i]) =>
                       (InOutput(i) <=> MalformedIn(ResponseTools(given[i])) = {})
                 /\ ~given[i].has_list_tools => InOutput(i)
                 /\ EnumerationFails(given[i]) => ~InOutput(i)
           /\ setup.toolsets = Pick(given, setup.kept)
           /\ \A j \in 1..Len(setup.toolsets) : setup.toolsets[j] \in ToolsetKinds
           /\ Len(schema_warnings) = Len(bad)
           /\ \A j \in 1..Len(bad) :
                 /\ schema_warnings[j].cls = given[bad[j]].cls
                 /\ NamedBy(schema_warnings[j]) = MalformedIn(ResponseTools(given[bad[j]]))
\* one toolset with a good tool and a tool whose parameter has no declared type
C17_Witness ==
    /\ setup.pc = "validated"
    /\ Len(setup.given) = 2
    /\ setup.given[1].tools = <<GoodTool, MissingTypeTool>>
    /\ IsEnumerable(setup.given[1]) /\ setup.given[1].shape = "list"
    /\ setup.given[2].tools = <<GoodTool, NoSchemaTool>>
    /\ setup.kept = <<2>>
    /\ Len(setup.validation_warnings) = 1
    /\ NamedBy(setup.validation_warnings[1]) = {<<"fetch", "url">>}
\* C17 as stated: a toolset is in the validated output if and only if none of
\* its declared tools has a parameter with missing or empty type metadata.
C17_IffOnDeclaredTools ==
    setup.pc = "validated" =>
        \A i \in 1..Len(setup.given) :
            InOutput(i) <=> MalformedIn(setup.given[i].tools) = {}

\* validate_and_fix_toolsets as a function of its argument
RECURSIVE Validated(_)
Validated(list) ==
    IF list = << >> THEN [toolsets |-> << >>, warnings |-> << >>]
    ELSE LET r == ValidateToolset(Head(list))
             rest == Validated(Tail(list))
         IN [toolsets |-> (IF r.admit THEN <<Head(list)>> ELSE << >>) \o rest.toolsets,
             warnings |-> r.warnings \o rest.warnings]
EnumerationWorks(toolset) == ~EnumerationFails(toolset)

\* C18: a toolset whose tool enumeration fails is excluded with one warning
\* that carries the error text; validation does not raise, and the toolsets
\* before and after it are validated and admitted exactly as if the failing
\* one were not in the list.
C18_EnumerationFailureIsolated ==
    /\ setup.pc \in {"idle", "validating", "validated"}
    /\ setup.raised = ""
    /\ setup.pc = "validated" =>
          LET given == setup.given
              failing == Indices(given, EnumerationFails)
              others == Validated(SelectSeq(given, EnumerationWorks))
              error_warnings == SelectSeq(setup.validation_warnings, IsErrorWarning)
          IN /\ \A j \in 1..Len(failing) : ~InOutput(failing[j])
             /\ Len(error_warnings) = Len(failing)
             /\ \A j \in 1..Len(failing) :
                   error_warnings[j].error = given[failing[j]].error
             /\ setup.toolsets = others.toolsets
             /\ SelectSeq(setup.validation_warnings, LAMBDA w : ~IsErrorWarning(w))
                   = others.warnings
C18_Witness ==
    /\ setup.pc = "validated"
    /\ Len(setup.given) = 3
    /\ IsEnumerable(setup.given[1]) /\ setup.given[1].tools = <<BareTool>>
    /\ EnumerationFails(setup.given[2])
    /\ setup.given[3].tools = <<TwoIssuesTool>>
    /\ setup.kept = <<1>>
    /\ Len(setup.validation_warnings) = 2
    /\ setup.validation_warnings[1].error = "connection refused"
    /\ NamedBy(setup.validation_warnings[2]) = {<<"edit", "b">>, <<"edit", "c">>}

\* ------------------------------------------------------------ construction
\* C19: when the agent is constructed while an event loop is running, or the
\* validation cannot be run, construction goes on without it: no toolset is
\* enumerated or excluded, the agent's toolsets are exactly what the factory
\* made (malformed ones included) and the list of validation warnings is empty.
C19_ValidationSkipped ==
    (setup.by = "init" /\ setup.loop \in {"running", "unavailable"}) =>
        /\ setup.pc \in {"raised", "factory", "validate", "model", "embedding",
                        "agent", "constructed"}
        /\ setup.pc \in {"model", "embedding", "agent"} =>
              /\ setup.toolsets = setup.factory
              /\ setup.validation_warnings = << >>
        /\ setup.enumerated = << >>
        /\ setup.cursor = 0
        /\ setup.pc = "constructed" =>
              /\ setup.toolsets = setup.factory
              /\ setup.validation_warnings = << >>
C19_Witness ==
    /\ setup.pc = "constructed"
    /\ setup.loop = "running"
    /\ Len(setup.toolsets) = 2
    /\ setup.toolsets[1].tools = <<GoodTool, MissingTypeTool>>
    /\ setup.toolsets[2].error = "connection refused"
    /\ setup.validation_warnings = << >>

\* C20: load_mcp_servers_from_config never raises to its caller: a missing,
\* unreadable, unparsable or structurally malformed configuration document
\* yields an empty list of descriptors.
C20_LoaderNeverRaises ==
    /\ setup.pc # "raised"
    /\ (setup.by = "init" /\ setup.doc_class \in
            {"missing", "unsearchable", "unreadable", "unparsable", "malformed"}) =>
          setup.tools_urls = << >>

\* ------------------------------------------------------------- the loader
\* the transport an entry declares ('http' when it declares none)
TransportOf(entry) == IF entry.type = "absent" THEN "http" ELSE entry.type
\* an entry that must become a descriptor: a command for stdio, a URL otherwise
IsValidEntry(entry) ==
    IF TransportOf(entry) = "stdio" THEN entry.command # NoWords
    ELSE entry.url # NoWords
KnownTransports == {"stdio", "http", "sse"}
DeclaresKnownTransport(entry) == TransportOf(entry) \in KnownTransports

\* C21: for a well-formed document the loader's output is the valid entries in
\* document order, one descriptor each: a stdio entry without a command is
\* skipped whatever its args, an http/sse entry without a URL is skipped, and
\* no skipped entry contributes a descriptor.
C21_ValidEntriesInOrder ==
    (/\ setup.by = "load" /\ setup.pc = "loaded"
     /\ setup.doc_class = "wellformed"
     /\ \A i \in 1..Len(setup.entries) : DeclaresKnownTransport(setup.entries[i])) =>
        LET valid == SelectSeq(setup.entries, IsValidEntry)
        IN /\ Len(setup.tools_urls) = Len(valid)
           /\ \A j \in 1..Len(valid) :
                 /\ setup.tools_urls[j].type = TransportOf(valid[j])
                 /\ TransportOf(valid[j]) # "stdio" => setup.tools_urls[j].url = valid[j].url
                 /\ TransportOf(valid[j]) = "stdio" =>
                       setup.tools_urls[j].url[1] = valid[j].command[1]

\* C22: every descriptor the loader produces has a transport kind in
\* {stdio, http, sse}; an entry declaring another type never becomes one.
C22_KnownTransportsOnly ==
    (setup.by = "load" /\ setup.pc = "loaded") =>
        /\ \A j \in 1..Len(setup.tools_urls) : setup.tools_urls[j].type \in KnownTransports
        /\ Len(setup.tools_urls) <= Len(SelectSeq(setup.entries, DeclaresKnownTransport))

\* ------------------------------------------------------------ the factory
\* the class setup_mcp_toolsets builds for a descriptor, "none" for a type it
\* does not know
HandleClass(tool) ==
    IF tool.type = "stdio" THEN "MCPServerStdio"
    ELSE IF tool.type = "sse" THEN "MCPServerSSE"
    ELSE IF tool.type = "http" THEN "MCPServerStreamableHTTP"
    ELSE "none"
\* the indices of the call's descriptors whose server was constructed
Constructed ==
    SelectSeq([i \in 1..Len(setup.tools_urls) |-> i],
              LAMBDA i : /\ HandleClass(setup.tools_urls[i]) # "none"
                         /\ setup.answers[i].constructs
                         /\ setup.tools_urls[i].type = "stdio" =>
                               setup.tools_urls[i].url # NoWords)

\* C23: in setup_mcp_toolsets a construction failure for one descriptor is
\* isolated: the factory does not raise, that server is omitted and every other
\* descriptor yields its handle, so the output is the handles of the servers
\* that were constructed, in input order.
C23_FactoryFailureIsolated ==
    setup.by = "factory" =>
        /\ setup.pc \in {"making", "made"}
        /\ setup.raised = ""
        /\ setup.pc = "made" =>
              /\ Len(setup.toolsets) = Len(Constructed)
              /\ \A j \in 1..Len(Constructed) :
                    LET tool == setup.tools_urls[Constructed[j]]
                    IN /\ setup.toolsets[j].cls = HandleClass(tool)
                       /\ tool.type # "stdio" => setup.toolsets[j].target = tool.url
                       /\ tool.type = "stdio" => setup.toolsets[j].target = <<tool.url[1]>>
\* the first server cannot be constructed, the second is
C23_Witness ==
    /\ setup.by = "factory" /\ setup.pc = "made"
    /\ Len(setup.tools_urls) = 2
    /\ setup.tools_urls[1].type = "sse" /\ ~setup.answers[1].constructs
    /\ setup.tools_urls[2].type = "http" /\ setup.answers[2].constructs
    /\ Len(setup.toolsets) = 1
    /\ setup.toolsets[1].cls = "MCPServerStreamableHTTP"

\* ------------------------------------------------------------------ images
\* C24: image normalization returns an inline-data reference (one that starts
\* with 'data:image/') unchanged, without a fetch or a file read, and is
\* idempotent: applied to a value it returned it returns that value.
C24_InlinePassThroughIdempotent ==
    \A p \in Procs :
        LET c == call[p]
        IN /\ (c.pc \in {"normalized", "renormalized"}
               /\ startswith(c.img_calls[1], "data:image/")) =>
                 /\ c.image.status = "value"
                 /\ c.image.value = c.img_calls[1]
                 /\ c.image.fetch = 0 /\ c.image.read = 0
           /\ c.pc = "renormalized" =>
                 /\ c.again.status = c.image.status
                 /\ c.again.value = c.image.value
                 /\ c.again.fetch = 0 /\ c.again.read = 0
\* an inline reference passed through, and passed through again
C24_Witness ==
    \E p \in Procs :
        /\ call[p].pc = "renormalized"
        /\ call[p].img_calls[1] = InlineRef
        /\ call[p].image.value = InlineRef
        /\ call[p].again.value = InlineRef

\* the format a content-type names, "none" when it names no known format
FormatOfContentType(content_type) ==
    CASE content_type = "image/png" -> "png"
      [] content_type \in {"image/jpeg", "image/jpg"} -> "jpeg"
      [] content_type = "image/gif" -> "gif"
      [] content_type = "image/webp" -> "webp"
      [] OTHER -> "none"
\* the format the extension of a URL names, "none" when it names none
FormatOfExtension(image_path) ==
    LET ext == image_path[Len(image_path)]
    IN CASE ext = ".png" -> "png"
         [] ext \in {".jpg", ".jpeg"} -> "jpeg"
         [] ext = ".gif" -> "gif"
         [] ext = ".webp" -> "webp"
         [] OTHER -> "none"
IsUrl(image_path) ==
    image_path # << >> /\ image_path[1] \in Schemes

\* C25: for a remote image URL the format tag comes from the response
\* content-type first, from the URL's extension only when the content-type
\* names no known format, and is png when neither does; a response of
\* content-type image/jpeg is tagged jpeg whatever the extension.
C25_ContentTypeFirst ==
    \A p \in Procs :
        LET c == call[p]
            url == c.img_calls[1]
            by_type == FormatOfContentType(HttpGet(url).content_type)
            by_ext == FormatOfExtension(url)
        IN (c.pc = "normalized" /\ IsUrl(url) /\ c.image.status = "value") =>
              c.image.value[2] = IF by_type # "none" THEN by_type
                                 ELSE IF by_ext # "none" THEN by_ext
                                 ELSE "png"

\* C26: a local image path that does not exist makes image normalization fail
\* with file-not-found naming the path, never a data URL; the engine reports
\* it as the error result (run_query) or the error event (run_query_stream) of
\* the call, nothing is read for it and the model is not invoked.
C26_MissingFileReported ==
    \A p \in Procs :
        LET c == call[p]
            n == Len(c.img_calls)
        IN (c.entry \in EntryPoints /\ n >= 1 /\ c.img_calls[n] = PathMissing) =>
              /\ c.pc = "done"
              /\ c.attempts = 0
              /\ Len(c.processed_images) < n
              /\ c.reads = Cardinality({k \in 1..(n - 1) : c.img_calls[k] = PathOk})
              /\ c.entry = "run_query" =>
                    c.result = ErrorDict(ImageErrorText, PathMissing, "Image file not found")
              /\ c.entry = "run_query_stream" =>
                    c.events = <<ErrorEvent(ImageErrorText, PathMissing,
                                            "Image file not found")>>
C26_Witness ==
    \E p \in Procs :
        /\ call[p].pc = "done"
        /\ call[p].entry = "run_query"
        /\ call[p].given = OneImage(PathMissing)
        /\ call[p].result.cause = "Image file not found"
        /\ call[p].reads = 0

\* C27: every image reference supplied to a call becomes an inline value of
\* the message payload or makes the call fail with an error: the model is
\* never invoked with fewer images than references were supplied.
C27_NoReferenceDropped ==
    \A p \in Procs :
        LET c == call[p]
        IN (c.entry \in EntryPoints /\ c.attempts >= 1) =>
              /\ Len(c.message_content.images) = Len(c.given.refs)
              /\ \A k \in 1..Len(c.message_content.images) :
                    /\ Len(c.message_content.images[k]) = 4
                    /\ c.message_content.images[k][1] = "data:image/"
                    /\ c.message_content.images[k][3] = ";base64,"

\* C28: in run_query every failed attempt, an empty result as much as a thrown
\* error, is followed by the one-second delay if attempts remain and by none
\* after the last: a call whose N attempts all failed has made N - 1 delays.
C28_DelayAfterEveryFailure ==
    \A p \in Procs :
        LET c == call[p]
        IN (c.entry = "run_query" /\ c.pc = "done"
            /\ c.result = ErrorDict(MaxRetriesText, << >>, "")) =>
              c.delays = c.attempts - 1

\* C29: a failure to resolve the embedding provider is not fatal to the
\* construction: the agent is still created with its model, its toolsets, an
\* empty history and zero usage, and its embedding capability and embedding
\* model name are both absent.
C29_EmbeddingFailureNotFatal ==
    (setup.by = "init" /\ setup.raised = "embedding") =>
        /\ setup.pc \in {"agent", "constructed"}
        /\ setup.embedding = "None"
        /\ setup.embedding_model_name = "None"
        /\ setup.model = "OpenAIChatModel"
        /\ setup.pc = "constructed" =>
              /\ setup.agent = "Agent"
              /\ message_history = << >>
              /\ usage = ZeroUsage
              /\ setup.toolsets = IF setup.loop = "none"
                                  THEN Pick(setup.factory, setup.kept)
                                  ELSE setup.factory
C29_Witness ==
    /\ setup.pc = "constructed"
    /\ setup.raised = "embedding"
    /\ setup.embedding = "None"
    /\ setup.agent = "Agent"
    /\ Len(setup.toolsets) = 1

\* C30: an exception raised while one upstream event is translated ends the
\* stream with exactly one terminal error event: no later upstream event is
\* translated and no final event follows.
C30_EventFailureEndsStream ==
    \A p \in Procs :
        LET c == call[p]
            n == Len(c.events)
        IN (c.entry = "run_query_stream" /\ c.raised # "" /\ c.pc = "done") =>
              /\ n >= 1
              /\ c.events[n].type = "error"
              /\ Count(c.events, "error") = 1
              /\ Count(c.events, "final") = 0


\* C31: the usage carried by the final event is the latest usage snapshot: its
\* input_tokens and output_tokens are those of the usage the agent holds when
\* the stream ends (stored by the run-completion event, or the prior usage).
C31_FinalUsageIsSnapshot ==
    \A p \in Procs :
        LET c == call[p]
            n == Len(c.events)
        IN (c.entry = "run_query_stream" /\ c.pc = "done" /\ c.upstream = "ended") =>
              /\ n >= 1
              /\ c.events[n].type = "final"
              /\ c.events[n].usage.input_tokens = usage.input_tokens
              /\ c.events[n].usage.output_tokens = usage.output_tokens


\* the indices 1..n, in order, that are not among the validated ones
ExcludedUpTo(n) == SelectSeq([i \in 1..n |-> i], LAMBDA i : ~InOutput(i))
IsIncreasing(ks) == \A j \in 1..Len(ks) - 1 : ks[j] < ks[j + 1]

\* C32: validate_and_fix_toolsets partitions its input: the validated list is a
\* subsequence of the input in the same relative order, exactly one warning is
\* recorded per excluded toolset, in input order, and the number of validated
\* toolsets plus the number of warnings is the number of input toolsets.
C32_ValidationPartitions ==
    /\ setup.pc = "validating" =>
          /\ IsIncreasing(setup.kept)
          /\ \A j \in 1..Len(setup.kept) : setup.kept[j] \in 1..(setup.cursor - 1)
          /\ Len(setup.kept) + Len(setup.all_warnings) = setup.cursor - 1
    /\ setup.pc = "validated" =>
          LET given == setup.given
              excluded == ExcludedUpTo(Len(given))
          IN /\ IsIncreasing(setup.kept)
             /\ \A j \in 1..Len(setup.kept) : setup.kept[j] \in 1..Len(given)
             /\ Len(setup.toolsets) = Len(setup.kept)
             /\ \A j \in 1..Len(setup.kept) : setup.toolsets[j] = given[setup.kept[j]]
             /\ Len(setup.validation_warnings) = Len(excluded)
             /\ \A j \in 1..Len(excluded) :
                   /\ setup.validation_warnings[j].cls = given[excluded[j]].cls
                   /\ IsErrorWarning(setup.validation_warnings[j])
                         <=> EnumerationFails(given[excluded[j]])
                   /\ IsSchemaWarning(setup.validation_warnings[j]) =>
                         NamedBy(setup.validation_warnings[j])
                            = MalformedIn(ResponseTools(given[excluded[j]]))
             /\ Len(setup.toolsets) + Len(setup.validation_warnings) = Len(given)
\* three toolsets: excluded for an enumeration error, admitted, excluded for a schema
C32_Witness ==
    /\ setup.pc = "validated"
    /\ Len(setup.given) = 3
    /\ setup.kept = <<2>>
    /\ EnumerationFails(setup.given[1])
    /\ Len(setup.validation_warnings) = 2
    /\ IsErrorWarning(setup.validation_warnings[1])
    /\ IsSchemaWarning(setup.validation_warnings[2])


\* the ids of the exchanges a history holds
ExchangesIn(history) == {history[i] : i \in 1..Len(history)}

\* C33: if the caller stops consuming a stream before the run-completion event
\* has been processed, message_history and usage are left exactly as they were
\* before the call, and the abandoned exchange is absent from the history the
\* next call gives to the model.
C33_AbandonedStreamLeavesState ==
    LET c == call[1]
        next == call[2]
    IN c.outcome = "abandoned" =>
          /\ c.pc = "done"
          /\ c.commits = 0
          /\ Count(c.events, "final") = 0
          /\ c.id \notin ExchangesIn(message_history)
          /\ next.commits = 0 => (message_history = c.hist0 /\ usage = c.usage0)
          /\ next.attempts > 0 =>
                /\ next.hist_given = c.hist0
                /\ c.id \notin ExchangesIn(next.hist_given)
\* the stream was stopped after a text increment, and the next call has completed
C33_Witness ==
    /\ call[1].outcome = "abandoned"
    /\ Len(call[1].events) >= 1
    /\ call[1].events[1].type = "text_delta"
    /\ call[2].attempts > 0
    /\ call[2].commits = 1
    /\ message_history = <<call[2].id>>


\* the call has invoked the model and its run has not completed
InFlight(c) == c.attempts > 0 /\ c.commits = 0 /\ c.pc \in {"await", "stream"}
\* the call's run has completed and its result was stored
Completed(c) == c.attempts > 0 /\ c.commits = 1
\* the two calls both invoked the model before either completed
Overlapped(c, d) == Completed(c) /\ Completed(d) /\ c.hist_given = d.hist_given

\* C34: overlapping calls on one agent are not serialized: a call that invokes
\* the model while another is in flight is given the same starting history, and
\* once both have completed, the stored history and usage are those of the
\* call that completed last; the exchange of the other call is absent.
C34_LastWriterWins ==
    /\ [][\A p \in Procs : \A q \in Procs \ {p} :
             (InFlight(call[p]) /\ call'[q].attempts = call[q].attempts + 1) =>
                 call'[q].hist_given = call[p].hist_given]_vars
    /\ [](\A p \in Procs : \A q \in Procs \ {p} :
             (Overlapped(call[p], call[q])
                 /\ last_done.messages = call[p].yielded.messages) =>
                   /\ message_history = call[p].yielded.messages
                   /\ message_history = Append(call[p].hist_given, call[p].id)
                   /\ usage = call[p].yielded.usage
                   /\ call[q].id \notin ExchangesIn(message_history)
                   /\ call[q].yielded.messages # message_history)
\* a run_query and a stream overlapped; the stream completed last with another usage
C34_Witness ==
    /\ call[1].entry = "run_query" /\ call[2].entry = "run_query_stream"
    /\ Overlapped(call[1], call[2])
    /\ call[1].yielded.usage # call[2].yielded.usage
    /\ last_done.messages = call[2].yielded.messages
    /\ message_history = <<call[2].id>>
    /\ usage = call[2].yielded.usage


\* C35: usage and message_history are updated together: after a call has
\* returned either both are those of one completed exchange or both are as
\* they were before the call; and once a result's state update has failed the
\* model is not invoked again for the same query.
C35_UsageAndHistoryTogether ==
    \A p \in Procs :
        LET c == call[p]
            PartlyStored == c.commits = 0 /\ usage # c.usage0
        IN c.entry # "none" =>
              /\ c.pc = "done" =>
                    \/ c.commits = 0 /\ message_history = c.hist0 /\ usage = c.usage0
                    \/ /\ c.commits = 1
                       /\ message_history = c.yielded.messages
                       /\ usage = c.yielded.usage
              /\ PartlyStored => c.pc \notin {"attempt", "await", "sleep"}


\* a stdio entry with a command (and a well-formed argument list, if any)
IsStdioEntry(entry) ==
    /\ entry.dict /\ entry.type = "stdio"
    /\ entry.command # NoWords
    /\ entry.args_tag \in {"absent", "list"}
\* the argument list an entry declares; each argument is a string (its words)
DeclaredArgs(entry) == IF entry.args_tag = "list" THEN entry.args ELSE << >>
\* the argument list a stdio server is launched with, each argument as its words
LaunchedArgs(toolset) == [k \in 1..Len(toolset.args) |-> <<toolset.args[k]>>]

\* C36: for a stdio entry, the command and the argument list of the document
\* are exactly the command and the argument list the factory launches the
\* subprocess with: same command, same number of arguments, same order and
\* contents, also for arguments that contain whitespace.
C36_StdioRoundTrip ==
    (/\ setup.by = "load" /\ setup.pc = "made"
     /\ \A i \in 1..Len(setup.entries) : IsStdioEntry(setup.entries[i])
     /\ \A i \in 1..Len(setup.answers) : setup.answers[i].constructs) =>
        /\ Len(setup.toolsets) = Len(setup.entries)
        /\ \A i \in 1..Len(setup.entries) :
              /\ setup.toolsets[i].cls = "MCPServerStdio"
              /\ setup.toolsets[i].target = setup.entries[i].command
              /\ Len(setup.toolsets[i].args) = Len(DeclaredArgs(setup.entries[i]))
              /\ LaunchedArgs(setup.toolsets[i]) = DeclaredArgs(setup.entries[i])


\* the tool names of the upstream tool results the call has consumed
ResultNames(seen) ==
    {seen[i].tool_name : i \in {i \in 1..Len(seen) : IsReadableResult(seen[i])}}

\* C37: every tool_result event carries in tool_name the name of the tool whose
\* result it reports (the name carried by the tool_call event of the same
\* invocation), never a placeholder.
C37_ToolResultNamesItsTool ==
    \A p \in Procs :
        LET c == call[p]
        IN c.entry = "run_query_stream" =>
              \A i \in 1..Len(c.events) :
                  c.events[i].type = "tool_result" =>
                      /\ c.events[i].tool_name # "unknown"
                      /\ c.events[i].tool_name \in ResultNames(c.seen)


\* a tool that declares no input schema, or a schema without properties
DeclaresNothing(tool) == tool.schema \in {"none", "bare"}
\* the tools of a list that declare properties
WithProperties(tools) == SelectSeq(tools, LAMBDA tool : ~DeclaresNothing(tool))
\* a toolset validation has nothing to look at: no list_tools, or only tools
\* without input schema or properties
IsUncheckable(toolset) ==
    \/ ~toolset.has_list_tools
    \/ IsEnumerable(toolset) /\ WithProperties(ResponseTools(toolset)) = << >>
WasEnumerated(i) == \E j \in 1..Len(setup.enumerated) : setup.enumerated[j] = i

\* C38: a toolset without tool enumeration (no list_tools) is admitted by
\* validate_and_fix_toolsets without any check and without a warning, and so is
\* a toolset whose tools declare no input schema or no properties; such tools
\* never count against their toolset.
C38_UncheckableAdmitted ==
    setup.pc = "validated" =>
        LET given == setup.given
            checked == SelectSeq(given, LAMBDA t : ~IsUncheckable(t))
        IN /\ \A i \in 1..Len(given) :
                 /\ IsUncheckable(given[i]) => InOutput(i)
                 /\ ~given[i].has_list_tools => ~WasEnumerated(i)
                 /\ IsEnumerable(given[i]) =>
                       (InOutput(i) <=>
                           IssuesFound(WithProperties(ResponseTools(given[i]))) = << >>)
           /\ Len(setup.validation_warnings) <= Len(checked)
           /\ (\A i \in 1..Len(given) : IsUncheckable(given[i])) =>
                 /\ setup.validation_warnings = << >>
                 /\ setup.toolsets = given
\* a toolset without list_tools whose tool is malformed, and one with a bare tool
C38_Witness ==
    /\ setup.pc = "validated"
    /\ Len(setup.given) = 2
    /\ ~setup.given[1].has_list_tools
    /\ setup.given[1].tools = <<MissingTypeTool>>
    /\ IsEnumerable(setup.given[2])
    /\ ResponseTools(setup.given[2]) = <<BareTool>>
    /\ setup.toolsets = setup.given
    /\ setup.validation_warnings = << >>

=============================================================================
